---- MODULE Spec2Model ----
(***************************************************************************)
(* Verification model of the Discord clan bot's polling core:              *)
(*   - the membership tracker track_clan (discordwelcomebot.py),           *)
(*   - the war attack tracker war_tracker / ClanTracker.track_war,         *)
(*   - calculate_monthly_donations and save_monthly_snapshot (donations.py),*)
(*   - the upgrade tracker upgrade_alert_loop / ClanTracker.track_upgrades, *)
(*   - the start, ticks and stop of a tracker loop,                        *)
(*   - APICache and RequestDeduplicator (cache.py),                        *)
(*   - the gateway coc_get with its credential selection and failover.     *)
(* Each component has its own specification over the shared variable list; *)
(* a component's specification leaves the other components' variables     *)
(* unchanged.                                                              *)
(***************************************************************************)
EXTENDS Integers, Sequences, FiniteSets, TLC

\* ------------------------------------------------------------------------
\* Bounds of the model
\* ------------------------------------------------------------------------
\* largest configured value of LEAVE_DEBOUNCE_COUNT that is explored
MaxDebounce == 2

\* player tags that can appear in a clan roster
Tags == {"A", "B", "C"}

\* most attacks one member has in a war; an attack is named by its order number
MaxAttacks == 2

\* members of the war roster
WarTags == {"P1", "P2"}

\* number of month keys (YYYY-MM) that snapshots are taken in
NumMonths == 3

\* members of the donation snapshots, and the seasonal counters they show
DonTags == {"P1", "P2"}

SeasonalValues == {10, 50}

\* number of times the clock is advanced in one run
MaxTicks == 1

\* number of fetch tasks (runs of the factory) created in one run
MaxFetches == 2

\* the callers of coc_get (tracker loops, command handlers)
Callers == {"c1", "c2"}

\* cache keys "coc:<path>" of two clan endpoints
Keys == {"k1", "k2"}

\* JSON documents held by the cache in the unit runs of APICache
Data == {"d1", "d2"}

\* number of _try_key_and_fetch calls that can be under way at once
MaxRequests == 8

\* month keys a snapshot can be saved for: two more than are retained
MaxMonthKey == 26

\* number of save_monthly_snapshot calls in one run
MaxSaves == 2

\* iterations of fixed_time_reminder_loop in one run
MaxWakes == 3

\* list objects that ever hold the monitored clans in one run
MaxLists == 3

\* ClanTracker objects created for one clan in one run
MaxTrackers == 2

\* ------------------------------------------------------------------------
\* Program constants (config.py)
\* ------------------------------------------------------------------------
WAR_CACHE_TTL == 30

CLAN_CACHE_TTL == 60

COC_IP_CACHE_TTL == 300

COC_CONCURRENCY == 6

\* save_monthly_snapshot: sorted_snapshots[:24]
KEEP_SNAPSHOTS == 24

VARIABLES
    \* ---- membership tracker (one clan) ----
    strict_join_cache,       \* strict_join_cache[clan_tag]: the in-memory knownTags
    members_file,            \* members_<tag>.json: [exists, tags]
    missing_counts,          \* missing_counts[clan_tag]: tag -> consecutive misses (0: no entry)
    initialized_baseline,    \* clan_tag \in initialized_baseline
    SKIP_EMPTY_MEMBER_LIST,  \* configuration flag
    LEAVE_DEBOUNCE_COUNT,    \* configuration value
    lastPoll,                \* history: how the last tick treated its poll, and the roster
    emitted,                 \* history: Join / Leave events of the last tick
    savedBlob,               \* history: the last save_strict_cache call of the last tick
    prevKnown,               \* history: strict_join_cache[clan_tag] when the last tick began
    absentRun,               \* history: per tag, consecutive processed polls it was absent from while known
    \* ---- ClanTracker.track_joins_leaves fed the same polls (trackers.py) ----
    member_cache,            \* self.member_cache
    tracker_file,            \* members_<tag>.json as this tracker writes it
    trackerEmitted,          \* history: Join / Leave events of its last tick
    joinLog,                 \* history: [who, log]: the tracker followed, per tag [open, left] over its events
    \* ---- war attack tracker (one clan) ----
    war_baselines,           \* war_baselines[clan_tag]: tag -> [present, attacks]
    warPoll,                 \* history: the last poll: [state, members, war]
    warPrev,                 \* history: the baseline the last poll was diffed against
    warEmitted,              \* history: per tag, the attacks announced by the last poll, in order
    baselineWar,             \* history: identity of the war whose poll left the baseline
    warLog,                  \* history of one war: per tag the list seen last and the attacks announced
    \* ---- donation snapshots (one clan) ----
    donation_snapshots,      \* load_donation_snapshots()[clan_tag]: list of [date, members]
    monthly_result,          \* the last result of calculate_monthly_donations
    savedMonths,             \* history: the month keys a snapshot was ever saved for
    lastSave,                \* history: the last save_monthly_snapshot call
    \* ---- clock ----
    now,                     \* time.time(), in seconds
    ticks,                   \* number of clock advances so far
    \* ---- APICache ----
    api_cache,               \* api_cache._cache: key -> [present, value, ts]
    lastSet,                 \* history: per key the last set() not yet invalidated or cleared
    cacheGot,                \* history: the last get(): [called, key, ttl, result, at]
    \* ---- RequestDeduplicator / coc_get ----
    pending,                 \* request_deduplicator._pending: key -> task id (0: no entry)
    tasks,                   \* the fetch tasks created by get_or_create, by id
    nextId,                  \* id of the next task to create
    callers,                 \* the coc_get calls: [pc, key, fut, res, ...] per caller
    \* ---- credential selection ----
    selected_coc_key,        \* _selected_coc_key
    selected_coc_key_ts,     \* _selected_coc_key_ts
    coc_key_lock,            \* _coc_key_lock: id of the task holding it, 0 when free
    cached_ip,               \* _cached_ip
    cached_ip_ts,            \* _cached_ip_ts
    selected_by_failover,    \* history: the stored selection was made by a failover
    \* ---- COCAPI._make_request ----
    lastCheck,               \* history: the cache check of the last _make_request call
    absentSince,             \* history: per key, the 404 answer that was cached last
    \* ---- asyncio.Semaphore(COC_CONCURRENCY) ----
    sem_value,               \* coc_semaphore._value
    requests,                \* the _try_key_and_fetch calls: where each one stands
    \* ---- select_coc_key on its own ----
    coc_api_keys,            \* COC_API_KEYS as configured: list of <<ip, credential>>
    selectGot,               \* history: the last select_coc_key call
    \* ---- upgrade tracker (one clan) ----
    last_upgrade_cache,      \* last_upgrade_cache: tag -> descriptors retained
    upPoll,                  \* history: the last poll: per tag [fetched, upgrading]
    upPrev,                  \* history: last_upgrade_cache when the last poll began
    upEmitted,               \* history: per tag, the descriptors the last poll announced
    \* ---- life of the tracker loops ----
    loops,                   \* per loop: [pc, running, stopped, late]
    client_closed,           \* client.is_closed()
    \* ---- fixed_time_reminder_loop ----
    rem_clock,               \* datetime.now() at the next iteration, in half minutes since a midnight
    sent_today_hours,        \* the local set sent_today_hours
    reminder_log,            \* history: [day, hour, count] of the reminders of the last hour that had one, wakes
    \* ---- the monitored clans and the global loops (bot.py) ----
    clan_lists,              \* the list objects created so far: the clan tags each one holds
    client_clans,            \* client.clans: the list object the attribute is bound to
    loop_clans,              \* the parameter 'clans' of the global loops (0: not started)
    lastScan,                \* history: the clans the last scan went through, and client.clans then
    \* ---- start_clan_tracking / stop_clan_tracking for one clan (bot.py) ----
    trackers,                \* the ClanTracker objects created so far: [running, stopped, pc per loop]
    clan_trackers,           \* client.clan_trackers[clan_tag]: the registered tracker (0: no entry)
    channel_cached           \* client.get_channel(ANNOUNCE_CHANNEL_ID) finds the channel

memberVars == <<strict_join_cache, members_file, missing_counts, initialized_baseline,
                SKIP_EMPTY_MEMBER_LIST, LEAVE_DEBOUNCE_COUNT, lastPoll, emitted,
                savedBlob, prevKnown, absentRun,
                member_cache, tracker_file, trackerEmitted, joinLog>>

warVars == <<war_baselines, warPoll, warPrev, warEmitted, baselineWar, warLog>>

donationVars == <<donation_snapshots, monthly_result, savedMonths, lastSave>>

clockVars == <<now, ticks>>

cacheVars == <<api_cache, lastSet, cacheGot>>

gatewayVars == <<pending, tasks, nextId, callers, selected_coc_key, selected_coc_key_ts,
                 coc_key_lock, cached_ip, cached_ip_ts, selected_by_failover>>

apiVars == <<lastCheck, absentSince>>

semVars == <<sem_value, requests>>

selectVars == <<coc_api_keys, selectGot>>

upgradeVars == <<last_upgrade_cache, upPoll, upPrev, upEmitted>>

loopVars == <<loops, client_closed>>

reminderVars == <<rem_clock, sent_today_hours, reminder_log>>

clanListVars == <<clan_lists, client_clans, loop_clans, lastScan>>

trackerVars == <<trackers, clan_trackers, channel_cached>>

botVars == <<reminderVars, clanListVars, trackerVars>>

extraVars == <<apiVars, semVars, selectVars, upgradeVars, loopVars, botVars>>

vars == <<memberVars, warVars, donationVars, clockVars, cacheVars, gatewayVars, extraVars>>

\* ========================================================================
\* MEMBERSHIP TRACKER: track_clan
\* ========================================================================
NoFile == [exists |-> FALSE, tags |-> {}]

FileOf(tags) == [exists |-> TRUE, tags |-> tags]

\* load_strict_cache: the stored list as a set, the empty set without a file
load_strict_cache(file) == IF file.exists THEN file.tags ELSE {}

\* mutant: nothing is ever written
save_strict_cache_skipped(file, tags, ok) == file

\* save_strict_cache / save_json: writes the set; an I/O error is swallowed and
\* leaves the file as it was
save_strict_cache(file, tags, ok) == IF ok THEN FileOf(tags) ELSE file

\* history record of a save_strict_cache call: its argument, and whether it wrote
NoSave == [called |-> FALSE, tags |-> {}, written |-> FALSE]

SaveOf(tags, ok) == [called |-> TRUE, tags |-> tags, written |-> ok]

NoEvents == [joins |-> {}, leaves |-> {}]

\* joins = [tag for tag in current_tags if tag not in prev_tags]
JoinsOf(prev_tags, current_tags) == current_tags \ prev_tags

\* mutant: the joins are announced but not added to the cache
CacheAfterJoins_forgotten(prev_tags, current_tags) == prev_tags

\* the join loop: every join is added to the cache and its miss counter is popped
CacheAfterJoins(prev_tags, current_tags) == prev_tags \cup JoinsOf(prev_tags, current_tags)

\* mutant: the counters of present tags are not reset
ResetPresent_kept(missing, current_tags) == missing

\* reset counters for present tags (and the pop in the join loop)
ResetPresent(missing, current_tags) ==
    [t \in Tags |-> IF t \in current_tags THEN 0 ELSE missing[t]]

\* mutant: every tag absent from the poll is a candidate, known or not
CandidateLeaves_any(prev_tags, current_tags) == Tags \ current_tags

\* candidate_leaves = [tag for tag in list(prev_tags) if tag not in current_tag_set]
\* (prev_tags aliases the cache set, so it already holds this tick's joins)
CandidateLeaves(prev_tags, current_tags) == prev_tags \ current_tags

\* cnt = missing.get(tag, 0) + 1; missing[tag] = cnt
BumpMissing(missing, candidates) ==
    [t \in Tags |-> IF t \in candidates THEN missing[t] + 1 ELSE missing[t]]

\* mutant: 'cnt <= LEAVE_DEBOUNCE_COUNT: continue', one poll late
ConfirmedLeaves_late(missing, candidates, threshold) ==
    {t \in candidates : missing[t] > threshold}

\* if cnt < LEAVE_DEBOUNCE_COUNT: continue   -- otherwise the leave is confirmed
ConfirmedLeaves(missing, candidates, threshold) ==
    {t \in candidates : ~(missing[t] < threshold)}

\* mutant: the counter of a confirmed leave stays in the map
PopConfirmed_kept(missing, confirmed) == missing

\* missing.pop(tag, None) for every confirmed leave
PopConfirmed(missing, confirmed) ==
    [t \in Tags |-> IF t \in confirmed THEN 0 ELSE missing[t]]

\* history: consecutive processed polls a known tag has been absent from
RunAfter(run, known, current_tags) ==
    [t \in Tags |-> IF t \in current_tags \/ t \notin known THEN 0 ELSE run[t] + 1]

\* the two membership loops
Membership == {"track_clan", "track_joins_leaves"}

\* history of the events of one tracker, per tag: open (a Join was emitted and
\* no Leave since), left (a Leave followed a Join)
JoinLogOf(w) ==
    [who |-> w, log |-> [t \in Tags |-> [open |-> FALSE, left |-> FALSE]]]

NoJoinLog == JoinLogOf("track_clan")

LogAfter(log, events) ==
    [t \in Tags |->
        IF t \in events.joins THEN [open |-> TRUE, left |-> log[t].left]
        ELSE IF t \in events.leaves THEN [open |-> FALSE, left |-> log[t].left \/ log[t].open]
        ELSE log[t]]

\* a tracker at its start: the known set is loaded from the file, whatever it holds
MemberStart ==
    /\ members_file \in {NoFile} \cup {FileOf(s) : s \in SUBSET Tags}
    /\ member_cache = load_strict_cache(members_file)
    /\ tracker_file = members_file
    /\ trackerEmitted = NoEvents
    /\ strict_join_cache = load_strict_cache(members_file)
    /\ missing_counts = [t \in Tags |-> 0]
    /\ initialized_baseline = FALSE
    /\ SKIP_EMPTY_MEMBER_LIST \in BOOLEAN
    /\ LEAVE_DEBOUNCE_COUNT \in 1..MaxDebounce
    /\ lastPoll = [kind |-> "none", roster |-> {}]
    /\ emitted = NoEvents
    /\ savedBlob = NoSave
    /\ prevKnown = {}
    /\ absentRun = [t \in Tags |-> 0]

MemberInit == MemberStart /\ joinLog = NoJoinLog

\* the other components do not move during a step of the membership tracker
OnlyMember == UNCHANGED <<warVars, donationVars, clockVars, cacheVars, gatewayVars, extraVars>>

\* mutant: the empty poll is not discarded, every known tag is counted missing once
PollSkipped_counted ==
    /\ SKIP_EMPTY_MEMBER_LIST
    /\ lastPoll' = [kind |-> "skipped", roster |-> {}]
    /\ emitted' = NoEvents
    /\ savedBlob' = NoSave
    /\ prevKnown' = strict_join_cache
    /\ missing_counts' = [t \in Tags |-> IF t \in strict_join_cache /\ missing_counts[t] = 0
                                         THEN 1 ELSE missing_counts[t]]
    /\ UNCHANGED <<strict_join_cache, members_file, initialized_baseline,
                   SKIP_EMPTY_MEMBER_LIST, LEAVE_DEBOUNCE_COUNT, absentRun>>
    /\ OnlyMember

\* if not member_list and SKIP_EMPTY_MEMBER_LIST: log and continue
PollSkipped ==
    /\ SKIP_EMPTY_MEMBER_LIST
    /\ lastPoll' = [kind |-> "skipped", roster |-> {}]
    /\ emitted' = NoEvents
    /\ savedBlob' = NoSave
    /\ prevKnown' = strict_join_cache
    /\ UNCHANGED <<strict_join_cache, members_file, missing_counts, initialized_baseline,
                   SKIP_EMPTY_MEMBER_LIST, LEAVE_DEBOUNCE_COUNT, absentRun>>
    /\ OnlyMember

\* mutant: the first roster is announced as joins instead of adopted silently
PollBootstrap_announced ==
    \E roster \in SUBSET Tags, saveOk \in BOOLEAN :
        /\ ~(roster = {} /\ SKIP_EMPTY_MEMBER_LIST)
        /\ strict_join_cache = {}
        /\ strict_join_cache' = roster
        /\ members_file' = save_strict_cache(members_file, roster, saveOk)
        /\ initialized_baseline' = TRUE
        /\ lastPoll' = [kind |-> "bootstrap", roster |-> roster]
        /\ emitted' = [joins |-> roster, leaves |-> {}]
        /\ savedBlob' = SaveOf(roster, saveOk)
        /\ prevKnown' = strict_join_cache
        /\ absentRun' = RunAfter(absentRun, strict_join_cache, roster)
        /\ UNCHANGED <<missing_counts, SKIP_EMPTY_MEMBER_LIST, LEAVE_DEBOUNCE_COUNT>>
        /\ OnlyMember

\* if not prev_tags: adopt the roster as the baseline, save, announce nothing
PollBootstrap ==
    \E roster \in SUBSET Tags, saveOk \in BOOLEAN :
        /\ ~(roster = {} /\ SKIP_EMPTY_MEMBER_LIST)
        /\ strict_join_cache = {}
        /\ strict_join_cache' = roster
        /\ members_file' = save_strict_cache(members_file, roster, saveOk)
        /\ initialized_baseline' = TRUE
        /\ lastPoll' = [kind |-> "bootstrap", roster |-> roster]
        /\ emitted' = NoEvents
        /\ savedBlob' = SaveOf(roster, saveOk)
        /\ prevKnown' = strict_join_cache
        /\ absentRun' = RunAfter(absentRun, strict_join_cache, roster)
        /\ UNCHANGED <<missing_counts, SKIP_EMPTY_MEMBER_LIST, LEAVE_DEBOUNCE_COUNT>>
        /\ OnlyMember

\* the join / leave diff of one tick.  joinSaveOk: whether the save after the
\* joins wrote the file; lastOk: the confirmed leaves handled up to and including
\* the last leave whose save wrote the file (the leave loop runs in set order,
\* saving after each removal), {} when none of them did.
PollDiff ==
    \E roster \in SUBSET Tags, joinSaveOk \in BOOLEAN, lastOk \in SUBSET Tags :
        /\ ~(roster = {} /\ SKIP_EMPTY_MEMBER_LIST)
        /\ strict_join_cache # {}
        /\ LET joins      == JoinsOf(strict_join_cache, roster)
               afterJoins == CacheAfterJoins(strict_join_cache, roster)
               fileJ      == IF joins # {}
                             THEN save_strict_cache(members_file, afterJoins, joinSaveOk)
                             ELSE members_file
               reset      == ResetPresent(missing_counts, roster)
               candidates == CandidateLeaves(afterJoins, roster)
               bumped     == BumpMissing(reset, candidates)
               confirmed  == ConfirmedLeaves(bumped, candidates, LEAVE_DEBOUNCE_COUNT)
           IN  /\ lastOk \subseteq confirmed
               /\ (joins = {} => joinSaveOk)
               /\ strict_join_cache' = afterJoins \ confirmed
               /\ members_file' = IF lastOk = {} THEN fileJ
                                  ELSE save_strict_cache(fileJ, afterJoins \ lastOk, TRUE)
               /\ missing_counts' = PopConfirmed(bumped, confirmed)
               /\ emitted' = [joins |-> joins, leaves |-> confirmed]
               /\ savedBlob' = IF confirmed # {}
                               THEN SaveOf(afterJoins \ confirmed, lastOk = confirmed)
                               ELSE IF joins # {} THEN SaveOf(afterJoins, joinSaveOk)
                               ELSE NoSave
               /\ prevKnown' = strict_join_cache
               /\ absentRun' = RunAfter(absentRun, afterJoins, roster)
        /\ lastPoll' = [kind |-> "diff", roster |-> roster]
        /\ UNCHANGED <<initialized_baseline, SKIP_EMPTY_MEMBER_LIST, LEAVE_DEBOUNCE_COUNT>>
        /\ OnlyMember

\* one iteration of the while loop of track_clan
TrackClanPoll == PollSkipped \/ PollBootstrap \/ PollDiff

\* the tracker before its first tick, with an empty file and the default configuration
\* track_clan alone: the other tracker is not followed
MemberNext ==
    TrackClanPoll /\ UNCHANGED <<member_cache, tracker_file, trackerEmitted, joinLog>>

\* one iteration of the while loop of ClanTracker.track_joins_leaves on the
\* roster polled: 'if not member_list: continue'; the joins are announced and
\* added (the add is outside the try around the send), then saved; the leaves
\* are announced at the first absence, removed and saved one by one.
\* joinSaveOk, lastOk: as in PollDiff
TrackerTick(roster) ==
    \E joinSaveOk \in BOOLEAN, lastOk \in SUBSET Tags :
        LET joins      == JoinsOf(member_cache, roster)
            afterJoins == CacheAfterJoins(member_cache, roster)
            fileJ      == IF joins # {}
                          THEN save_strict_cache(tracker_file, afterJoins, joinSaveOk)
                          ELSE tracker_file
            leaves     == CandidateLeaves(afterJoins, roster)
        IN  IF roster = {}
            THEN /\ joinSaveOk /\ lastOk = {}
                 /\ trackerEmitted' = NoEvents
                 /\ UNCHANGED <<member_cache, tracker_file>>
            ELSE /\ lastOk \subseteq leaves
                 /\ (joins = {} => joinSaveOk)
                 /\ member_cache' = afterJoins \ leaves
                 /\ tracker_file' = IF lastOk = {} THEN fileJ
                                    ELSE save_strict_cache(fileJ, afterJoins \ lastOk, TRUE)
                 /\ trackerEmitted' = [joins |-> joins, leaves |-> leaves]

\* both trackers started from the same file, on the same sequence of polls
MembershipTick ==
    /\ TrackClanPoll
    /\ TrackerTick(lastPoll'.roster)
    /\ UNCHANGED joinLog

\* either program on its own, with the history of its Join and Leave events;
\* the file is read at the start only, so the writes are taken to succeed
JoinsInit ==
    /\ MemberStart
    /\ joinLog \in {JoinLogOf(w) : w \in Membership}
    \* ClanTracker reads neither configuration value
    /\ joinLog.who = "track_joins_leaves" =>
          SKIP_EMPTY_MEMBER_LIST /\ LEAVE_DEBOUNCE_COUNT = 1

ClanJoins ==
    /\ joinLog.who = "track_clan"
    /\ TrackClanPoll
    /\ savedBlob'.called => members_file' = FileOf(strict_join_cache')
    /\ joinLog' = [joinLog EXCEPT !.log = LogAfter(@, emitted')]
    /\ UNCHANGED <<member_cache, tracker_file, trackerEmitted>>

TrackerJoins ==
    /\ joinLog.who = "track_joins_leaves"
    /\ \E roster \in SUBSET Tags : TrackerTick(roster)
    /\ trackerEmitted' # NoEvents => tracker_file' = FileOf(member_cache')
    /\ joinLog' = [joinLog EXCEPT !.log = LogAfter(@, trackerEmitted')]
    /\ UNCHANGED <<strict_join_cache, members_file, missing_counts, initialized_baseline,
                   SKIP_EMPTY_MEMBER_LIST, LEAVE_DEBOUNCE_COUNT, lastPoll, emitted,
                   savedBlob, prevKnown, absentRun>>
    /\ OnlyMember

JoinsNext == ClanJoins \/ TrackerJoins

MemberIdle ==
    /\ member_cache = {}
    /\ tracker_file = NoFile
    /\ trackerEmitted = NoEvents
    /\ joinLog = NoJoinLog
    /\ members_file = NoFile
    /\ strict_join_cache = {}
    /\ missing_counts = [t \in Tags |-> 0]
    /\ initialized_baseline = FALSE
    /\ SKIP_EMPTY_MEMBER_LIST = TRUE
    /\ LEAVE_DEBOUNCE_COUNT = MaxDebounce
    /\ lastPoll = [kind |-> "none", roster |-> {}]
    /\ emitted = NoEvents
    /\ savedBlob = NoSave
    /\ prevKnown = {}
    /\ absentRun = [t \in Tags |-> 0]

\* ========================================================================
\* WAR ATTACK TRACKER: war_tracker / ClanTracker.track_war
\* ========================================================================
\* a member's attack list: attacks in the order they were made
RECURSIVE Increasing(_)
Increasing(s) ==
    IF Len(s) < 2 THEN TRUE ELSE s[1] < s[2] /\ Increasing(Tail(s))

AttackLists ==
    {s \in UNION {[1..n -> 1..MaxAttacks] : n \in 0..MaxAttacks} : Increasing(s)}

NoMember == [present |-> FALSE, attacks |-> <<>>]

MemberEntries == {NoMember} \cup {[present |-> TRUE, attacks |-> a] : a \in AttackLists}

WarStates == {"none", "inWar", "preparation", "warEnded"}

\* prev_map.get(tag, [])
PrevAttacks(prev_map, tag) == IF prev_map[tag].present THEN prev_map[tag].attacks ELSE <<>>

\* mutant: the whole list is announced when it grew
NewAttacks_whole(attacks, prev_attacks) ==
    IF Len(attacks) > Len(prev_attacks) THEN attacks ELSE <<>>

\* if len(attacks) > len(prev_attacks): new_attacks = attacks[len(prev_attacks):]
NewAttacks(attacks, prev_attacks) ==
    IF Len(attacks) > Len(prev_attacks)
    THEN SubSeq(attacks, Len(prev_attacks) + 1, Len(attacks))
    ELSE <<>>

\* the announcements of one in-war poll, per member of current_map
WarHits(prev_map, current_map) ==
    [t \in WarTags |-> IF current_map[t].present
                       THEN NewAttacks(current_map[t].attacks, PrevAttacks(prev_map, t))
                       ELSE <<>>]

NoHits == [t \in WarTags |-> <<>>]

\* identities of the wars the clan fights one after the other (0: no war seen yet)
WarIds == {1, 2}

\* mutant: every poll that carries war data is treated as a war in progress
IsInWar_any(state) == state # "none"

\* war.get("state") == "inWar"; "none" stands for a poll without war data
IsInWar(state) == state = "inWar"

NoWarLog == [seen |-> [t \in WarTags |-> <<>>], announced |-> [t \in WarTags |-> {}],
             twice |-> FALSE]

WarInit ==
    /\ warLog = NoWarLog
    /\ war_baselines = [t \in WarTags |-> NoMember]
    /\ warPoll = [state |-> "none", members |-> [t \in WarTags |-> NoMember], war |-> 0]
    /\ warPrev = [t \in WarTags |-> NoMember]
    /\ warEmitted = NoHits
    /\ baselineWar = 0

WarIdle == WarInit

OnlyWar == UNCHANGED <<memberVars, donationVars, clockVars, cacheVars, gatewayVars, extraVars>>

\* the polls get_current_war can answer with: wars follow one another, so the
\* polled war is the one seen last or the next one; a poll without war data
\* shows no war and no member; on preparation day no attack has been made
WarAnswers ==
    {p \in [state : WarStates, members : [WarTags -> MemberEntries], war : WarIds \cup {0}] :
        /\ p.state = "none" => p.members = [t \in WarTags |-> NoMember] /\ p.war = warPoll.war
        /\ p.state # "none" => p.war \in WarIds /\ p.war \in {warPoll.war, warPoll.war + 1}
        /\ p.state = "preparation" => \A t \in WarTags : p.members[t].attacks = <<>>}

\* if not war or war.get("state") != "inWar": sleep and continue
WarPollIdle ==
    \E p \in WarAnswers :
        /\ ~IsInWar(p.state)
        /\ warPoll' = p
        /\ warPrev' = war_baselines
        /\ warEmitted' = NoHits
        /\ UNCHANGED <<war_baselines, baselineWar>>
        /\ OnlyWar

\* an in-war poll: announce the new attacks, then replace the baseline
WarPollInWar ==
    \E p \in WarAnswers :
        /\ IsInWar(p.state)
        /\ warPoll' = p
        /\ warPrev' = war_baselines
        /\ warEmitted' = WarHits(war_baselines, p.members)
        /\ war_baselines' = p.members
        /\ baselineWar' = p.war
        /\ OnlyWar

\* one iteration of the while loop of war_tracker
WarTrackerPoll == WarPollIdle \/ WarPollInWar

\* the tracker polling as such: the history of the single war is not kept
WarNext == WarTrackerPoll /\ UNCHANGED warLog

\* s is the beginning of l
IsPrefix(s, l) == Len(s) <= Len(l) /\ SubSeq(l, 1, Len(s)) = s

\* the in-war polls of one war in which the attack list of every member only
\* grows; a member may be missing from a poll and present again later
WarPollGrowing ==
    /\ WarPollInWar
    /\ warPoll'.war = 1
    /\ \A t \in WarTags :
          warPoll'.members[t].present => IsPrefix(warLog.seen[t], warPoll'.members[t].attacks)
    /\ warLog' =
          [seen |-> [t \in WarTags |-> IF warPoll'.members[t].present
                                       THEN warPoll'.members[t].attacks
                                       ELSE warLog.seen[t]],
           announced |-> [t \in WarTags |->
                            warLog.announced[t] \cup
                                {warEmitted'[t][i] : i \in 1..Len(warEmitted'[t])}],
           twice |-> \/ warLog.twice
                     \/ \E t \in WarTags : \E i \in 1..Len(warEmitted'[t]) :
                            warEmitted'[t][i] \in warLog.announced[t]]

\* ========================================================================
\* DONATIONS: save_monthly_snapshot / calculate_monthly_donations
\* ========================================================================
\* month keys "YYYY-MM": zero-padded and of one width, so that the string order
\* sorted() uses is the order of the months; a key is modelled by its rank
Months == 1..NumMonths

NoDonor == [present |-> FALSE, seasonal |-> 0]

DonorEntries == {NoDonor} \cup {[present |-> TRUE, seasonal |-> v] : v \in SeasonalValues}

SnapshotMembers == [DonTags -> DonorEntries]

\* snapshot lists as save_monthly_snapshot leaves them: newest first, one per month
RECURSIVE SnapshotLists(_)
SnapshotLists(top) ==
    IF top = 0 THEN {<<>>}
    ELSE LET rest == SnapshotLists(top - 1)
         IN  rest \cup {<<[date |-> top, members |-> m]>> \o r : m \in SnapshotMembers, r \in rest}

RECURSIVE SumOver(_, _)
SumOver(f, S) ==
    IF S = {} THEN 0
    ELSE LET x == CHOOSE y \in S : TRUE IN f[x] + SumOver(f, S \ {x})

Max0(x) == IF x > 0 THEN x ELSE 0

\* sorted(clan_snapshots, key=date): insertion into an ascending list
RECURSIVE SortedAsc(_)
SortedAsc(list) ==
    IF list = <<>> THEN <<>>
    ELSE LET rest == SortedAsc(Tail(list))
             h    == Head(list)
             lo   == SelectSeq(rest, LAMBDA s : s.date < h.date)
             hi   == SelectSeq(rest, LAMBDA s : ~(s.date < h.date))
         IN  lo \o <<h>> \o hi

\* target_index: the first index of the month in the sorted list, 0 when missing
IndexOfMonth(sorted, month) ==
    IF \E i \in 1..Len(sorted) : sorted[i].date = month
    THEN CHOOSE i \in 1..Len(sorted) :
            /\ sorted[i].date = month
            /\ \A j \in 1..(i - 1) : sorted[j].date # month
    ELSE 0

\* mutant: the difference is not clamped at 0
MonthlyOf_unclamped(data, prev_data) ==
    IF prev_data.present THEN data.seasonal - prev_data.seasonal ELSE data.seasonal

\* monthly of one member of the target snapshot
MonthlyOf(data, prev_data) ==
    IF prev_data.present
    THEN Max0(data.seasonal - prev_data.seasonal)
    ELSE data.seasonal

NoneResult == [kind |-> "none", month |-> 0, monthly |-> [t \in DonTags |-> 0],
               in |-> {}, total |-> 0]

\* mutant: a month without an earlier snapshot is answered like a missing month
FirstResult_none(month_key) == [NoneResult EXCEPT !.month = month_key]

\* target_index == 0: {"month", "members": {}, "total_monthly": 0, "note": "First
\* snapshot - no previous data to compare"}; kind "first" stands for the note
FirstResult(month_key) ==
    [kind |-> "first", month |-> month_key, monthly |-> [t \in DonTags |-> 0],
     in |-> {}, total |-> 0]

\* calculate_monthly_donations(clan_tag, month_key)
calculate_monthly_donations(clan_snapshots, month_key) ==
    LET sorted == SortedAsc(clan_snapshots)
        idx    == IndexOfMonth(sorted, month_key)
    IN  IF clan_snapshots = <<>> \/ idx = 0 THEN [NoneResult EXCEPT !.month = month_key]
        ELSE IF idx = 1
        THEN FirstResult(month_key)
        ELSE LET target  == sorted[idx].members
                 prev    == sorted[idx - 1].members
                 inT     == {t \in DonTags : target[t].present}
                 monthly == [t \in DonTags |-> IF t \in inT
                                               THEN MonthlyOf(target[t], prev[t]) ELSE 0]
             IN  [kind |-> "delta", month |-> month_key, monthly |-> monthly,
                  in |-> inT, total |-> SumOver(monthly, inT)]

\* the month keys of a list of snapshots
MonthsOf(list) == {list[i].date : i \in 1..Len(list)}

NoSnapshotSave == [called |-> FALSE, snapshot |-> [date |-> 0, members |-> [t \in DonTags |-> NoDonor]],
                   before |-> <<>>, repeated |-> FALSE, count |-> 0]

DonationInit ==
    /\ donation_snapshots \in SnapshotLists(NumMonths)
    /\ monthly_result = NoneResult
    /\ savedMonths = MonthsOf(donation_snapshots)
    /\ lastSave = NoSnapshotSave

DonationIdle ==
    /\ donation_snapshots = <<>>
    /\ monthly_result = NoneResult
    /\ savedMonths = {}
    /\ lastSave = NoSnapshotSave

OnlyDonation == UNCHANGED <<memberVars, warVars, clockVars, cacheVars, gatewayVars, extraVars>>

CalculateMonthly ==
    \E m \in Months :
        /\ monthly_result' = calculate_monthly_donations(donation_snapshots, m)
        /\ UNCHANGED <<donation_snapshots, savedMonths, lastSave>>
        /\ OnlyDonation

\* ---- save_monthly_snapshot ----
\* the member maps of the snapshots that are saved: every member with 10, or
\* every member with 50 donations
SaveContents ==
    {[t \in DonTags |-> [present |-> TRUE, seasonal |-> v]] : v \in SeasonalValues}

\* sorted(..., key=date, reverse=True): insertion into a descending list
RECURSIVE SortedDesc(_)
SortedDesc(list) ==
    IF list = <<>> THEN <<>>
    ELSE LET rest == SortedDesc(Tail(list))
             h    == Head(list)
             hi   == SelectSeq(rest, LAMBDA s : s.date > h.date)
             lo   == SelectSeq(rest, LAMBDA s : ~(s.date > h.date))
         IN  hi \o <<h>> \o lo

\* mutant: nothing is pruned
KeepNewest_all(sorted) == sorted

\* sorted_snapshots[:24]
KeepNewest(sorted) ==
    SubSeq(sorted, 1, IF Len(sorted) < KEEP_SNAPSHOTS THEN Len(sorted) ELSE KEEP_SNAPSHOTS)

\* save_monthly_snapshot(clan_tag, snapshot): the list that is written
save_monthly_snapshot(clan_snapshots, snapshot) ==
    LET others == SelectSeq(clan_snapshots, LAMBDA s : s.date # snapshot.date)
    IN  KeepNewest(SortedDesc(Append(others, snapshot)))

\* the lists the saves start from: none, or one snapshot a month for 23 or 24
\* months (the months 1..n as n monthly saves leave them, newest first)
SavedRuns ==
    LET MonthRun(n) ==
            [i \in 1..n |->
                [date |-> n + 1 - i,
                 members |-> [t \in DonTags |-> [present |-> TRUE, seasonal |-> 10]]]]
    IN  {MonthRun(n) : n \in {0, KEEP_SNAPSHOTS - 1, KEEP_SNAPSHOTS}}

SnapshotInit ==
    /\ donation_snapshots \in SavedRuns
    /\ monthly_result = NoneResult
    /\ savedMonths = MonthsOf(donation_snapshots)
    /\ lastSave = NoSnapshotSave

\* one call of save_monthly_snapshot whose write succeeds
SaveMonthly ==
    \E m \in 1..MaxMonthKey, c \in SaveContents :
        LET snapshot == [date |-> m, members |-> c]
        IN  /\ lastSave.count < MaxSaves
            /\ donation_snapshots' = save_monthly_snapshot(donation_snapshots, snapshot)
            /\ savedMonths' = savedMonths \cup {m}
            /\ lastSave' = [called |-> TRUE, snapshot |-> snapshot,
                            before |-> donation_snapshots,
                            repeated |-> lastSave.called /\ lastSave.snapshot = snapshot,
                            count |-> lastSave.count + 1]
            /\ UNCHANGED monthly_result
            /\ OnlyDonation

\* ========================================================================
\* UPGRADE TRACKER: upgrade_alert_loop / ClanTracker.track_upgrades
\* ========================================================================
\* members of the roster
UpTags == {"P1", "P2"}

\* upgrade descriptors "Hero: <name> -> L<n>", "Pet: ...", "Troop/Spell: ..."
Descriptors == {"hero", "pet"}

\* what one poll shows of a member: fetched is false when the member is not in
\* the roster answered or get_player gave nothing; upgrading is the list built
\* from the player data, taken as the set of its descriptors
UpAnswers ==
    {[fetched |-> FALSE, upgrading |-> {}]}
        \cup {[fetched |-> TRUE, upgrading |-> u] : u \in SUBSET Descriptors}

\* mutant: the whole list is announced when it differs from the retained one
NewUpgrades_whole(upgrading, old) == IF upgrading # old THEN upgrading ELSE {}

\* new_upgrades = [x for x in upgrading if x not in old]
NewUpgrades(upgrading, old) == upgrading \ old

UpgradeInit ==
    /\ last_upgrade_cache = [t \in UpTags |-> {}]
    /\ upPoll = [t \in UpTags |-> [fetched |-> FALSE, upgrading |-> {}]]
    /\ upPrev = [t \in UpTags |-> {}]
    /\ upEmitted = [t \in UpTags |-> {}]

OnlyUpgrade ==
    UNCHANGED <<memberVars, warVars, donationVars, clockVars, cacheVars, gatewayVars,
                apiVars, semVars, selectVars, loopVars, botVars>>

\* one iteration of the while loop: for every member whose player data is
\* fetched, announce the new descriptors and retain the current list
UpgradePoll ==
    \E poll \in [UpTags -> UpAnswers] :
        /\ upPoll' = poll
        /\ upPrev' = last_upgrade_cache
        /\ upEmitted' = [t \in UpTags |->
                            IF poll[t].fetched
                            THEN NewUpgrades(poll[t].upgrading, last_upgrade_cache[t])
                            ELSE {}]
        /\ last_upgrade_cache' = [t \in UpTags |->
                                     IF poll[t].fetched THEN poll[t].upgrading
                                     ELSE last_upgrade_cache[t]]
        /\ OnlyUpgrade

\* ========================================================================
\* APICache (cache.py)
\* ========================================================================
\* Python's None: a miss of APICache.get, a failed fetch
None == "None"

NoEntry == [present |-> FALSE, value |-> None, ts |-> 0]

\* mutant: an expired entry is returned as if it were fresh
CacheFresh_always(entry, ttl, t) == entry.present

\* if key in self._cache: value, timestamp = ...; if time.time() - timestamp < ttl
CacheFresh(entry, ttl, t) == entry.present /\ t - entry.ts < ttl

\* APICache.get: the value of a fresh entry, None otherwise
CacheGetValue(cache, key, ttl, t) ==
    IF CacheFresh(cache[key], ttl, t) THEN cache[key].value ELSE None

\* APICache.get: an entry found expired is deleted
CacheAfterGet(cache, key, ttl, t) ==
    IF cache[key].present /\ ~CacheFresh(cache[key], ttl, t)
    THEN [cache EXCEPT ![key] = NoEntry]
    ELSE cache

\* APICache.set: self._cache[key] = (value, time.time())
CacheAfterSet(cache, key, value, t) ==
    [cache EXCEPT ![key] = [present |-> TRUE, value |-> value, ts |-> t]]

\* APICache.invalidate: self._cache.pop(key, None)
CacheAfterInvalidate(cache, key) == [cache EXCEPT ![key] = NoEntry]

\* APICache.clear: self._cache.clear()
CacheCleared == [k \in Keys |-> NoEntry]

\* (the per-key locks of APICache are held only across code that never suspends,
\*  so every method runs as one step)

NoSet == [valid |-> FALSE, value |-> None, at |-> 0]

NoGet == [called |-> FALSE, key |-> "", ttl |-> 0, result |-> None, at |-> 0]

ClockInit == now = 0 /\ ticks = 0

CacheInit ==
    /\ api_cache = CacheCleared
    /\ lastSet = [k \in Keys |-> NoSet]
    /\ cacheGot = NoGet

\* the ttl arguments get() is called with
TtlChoices == {WAR_CACHE_TTL, CLAN_CACHE_TTL}

OnlyCache == UNCHANGED <<memberVars, warVars, donationVars, gatewayVars, extraVars>>

CacheSetOp ==
    \E k \in Keys, v \in Data :
        /\ api_cache' = CacheAfterSet(api_cache, k, v, now)
        /\ lastSet' = [lastSet EXCEPT ![k] = [valid |-> TRUE, value |-> v, at |-> now]]
        /\ cacheGot' = NoGet
        /\ UNCHANGED clockVars
        /\ OnlyCache

CacheGetOp ==
    \E k \in Keys, ttl \in TtlChoices :
        /\ cacheGot' = [called |-> TRUE, key |-> k, ttl |-> ttl,
                        result |-> CacheGetValue(api_cache, k, ttl, now), at |-> now]
        /\ api_cache' = CacheAfterGet(api_cache, k, ttl, now)
        /\ UNCHANGED <<lastSet, clockVars>>
        /\ OnlyCache

CacheInvalidateOp ==
    \E k \in Keys :
        /\ api_cache' = CacheAfterInvalidate(api_cache, k)
        /\ lastSet' = [lastSet EXCEPT ![k] = NoSet]
        /\ cacheGot' = NoGet
        /\ UNCHANGED clockVars
        /\ OnlyCache

CacheClearOp ==
    /\ api_cache' = CacheCleared
    /\ lastSet' = [k \in Keys |-> NoSet]
    /\ cacheGot' = NoGet
    /\ UNCHANGED clockVars
    /\ OnlyCache

\* time passes between two calls
CacheTick ==
    \E d \in TtlChoices :
        /\ ticks < MaxTicks
        /\ now' = now + d
        /\ ticks' = ticks + 1
        /\ UNCHANGED cacheVars
        /\ OnlyCache

CacheNext == CacheSetOp \/ CacheGetOp \/ CacheInvalidateOp \/ CacheClearOp \/ CacheTick

\* ========================================================================
\* The gateway: coc_get, RequestDeduplicator, select_coc_key
\* (discordwelcomebot.py, cache.py)
\* ========================================================================
\* COC_API_KEYS: egress IP (or "*") -> credential
COC_API_KEYS == [ip \in {"ip1", "ip2", "*"} |->
                    IF ip = "ip1" THEN "K1" ELSE IF ip = "ip2" THEN "K2" ELSE "K3"]

\* set(COC_API_KEYS.values())
CredValues == {COC_API_KEYS[ip] : ip \in DOMAIN COC_API_KEYS}

\* next(iter(COC_API_KEYS.values()))
FirstCred == COC_API_KEYS["ip1"]

\* what the probe of the egress IP answers: an address, or None when it fails
ProbeResults == {"ip1", None}

\* what one HTTP request to the upstream ends in: 200 with a JSON document,
\* a non-200 status / timeout / client error, or a body that json() rejects
Replies == {"ok", "fail", "raise"}

\* the document a 200 answer to a request of task t carries: the upstream's
\* content changes over time, so no two fetches are assumed to see the same one
DocNames == <<"d1", "d2", "d3", "d4", "d5">>

DocOf(t) == DocNames[t]

\* how a fetch task or a call ends
ValueOutcome(d) == [kind |-> "value", v |-> d]

NoneOutcome == [kind |-> "none", v |-> None]

ErrorOutcome == [kind |-> "error", v |-> None]

CancelledOutcome == [kind |-> "cancelled", v |-> None]

NoOutcome == [kind |-> "unset", v |-> None]

IdleCaller == [pc |-> "idle", key |-> "", fut |-> 0, must_cancel |-> FALSE]

Range(seq) == {seq[i] : i \in 1..Len(seq)}

TaskIds == 1..Len(tasks)

Running(t) == tasks[t].pc \notin {"done", "freed"}

\* coc_get: ttl chosen from the path; both keys are clan endpoints
TtlOf(key) == CLAN_CACHE_TTL

\* mutant: the pending entry of the key is never found
PendingFor_miss(pend, key) == 0

\* get_or_create: if key in self._pending: future = self._pending[key]
PendingFor(pend, key) == pend[key]

\* get_or_create, finally: if key in pending and pending[key] == future: del
PendingAfterWait(pend, key, future) ==
    IF pend[key] = future THEN [pend EXCEPT ![key] = 0] ELSE pend

\* get_egress_ip: the cached address while fresh, else the probe's answer
EgressIp(probe) ==
    IF cached_ip # None /\ now - cached_ip_ts < COC_IP_CACHE_TTL THEN cached_ip ELSE probe

\* get_egress_ip: a successful probe is cached
ProbeCached(probe) ==
    ~(cached_ip # None /\ now - cached_ip_ts < COC_IP_CACHE_TTL) /\ probe # None

\* select_coc_key, under the lock: exact IP, then wildcard, then the first value
KeyForIp(ip) ==
    IF ip # None /\ ip \in DOMAIN COC_API_KEYS THEN COC_API_KEYS[ip]
    ELSE IF "*" \in DOMAIN COC_API_KEYS THEN COC_API_KEYS["*"]
    ELSE FirstCred

\* mutant: the stored selection is never taken as fresh
SelectionFresh_never == FALSE

\* select_coc_key, fast path: the stored selection while younger than the TTL
SelectionFresh == selected_coc_key # None /\ now - selected_coc_key_ts < COC_IP_CACHE_TTL

\* mutant: the failover loop does not skip the credential that just failed
FailoverCandidates_all(key) == CredValues

\* _fetch: for k in set(COC_API_KEYS.values()): if k == key: continue
FailoverCandidates(key) == CredValues \ {key}

\* requests holding coc_semaphore
InFlight == Cardinality({t \in TaskIds : tasks[t].pc \in {"first_http", "fo_http"}})

GatewayInit ==
    /\ pending = [k \in Keys |-> 0]
    /\ tasks = <<>>
    /\ nextId = 1
    /\ callers = [c \in Callers |-> IdleCaller]
    /\ selected_coc_key = None
    /\ selected_coc_key_ts = 0
    /\ coc_key_lock = 0
    /\ cached_ip = None
    /\ cached_ip_ts = 0
    /\ selected_by_failover = FALSE

OnlyGateway == UNCHANGED <<memberVars, warVars, donationVars, lastSet, cacheGot, extraVars>>

SelectionUnchanged ==
    UNCHANGED <<selected_coc_key, selected_coc_key_ts, cached_ip, cached_ip_ts, selected_by_failover>>

\* a task created by asyncio.create_task(factory()); history fields:
\*   beside:  a fetch of the same key was still running when it was created
\*   served:  how many calls have received its outcome
\*   reused:  a call found it in _pending after it was done
NewTask(key, beside) ==
    [key |-> key, pc |-> "select", cred |-> None, tried |-> <<>>, outcome |-> NoOutcome,
     beside |-> beside, served |-> 0, reused |-> FALSE]

\* the factory returns or raises: the locals of the coroutine are gone, the
\* future keeps the outcome
Done(task, outcome) ==
    [task EXCEPT !.pc = "done", !.cred = None, !.tried = <<>>, !.outcome = outcome]

\* a future that is done and referenced neither by _pending nor by a waiting
\* call is garbage: its record is dropped
Freed ==
    [key |-> "", pc |-> "freed", cred |-> None, tried |-> <<>>, outcome |-> NoOutcome,
     beside |-> FALSE, served |-> 0, reused |-> FALSE]

Collect(ts, pend, cs) ==
    [t \in DOMAIN ts |->
        IF /\ ts[t].pc = "done"
           /\ pend[ts[t].key] # t
           /\ \A c \in Callers : ~(cs[c].pc = "awaiting" /\ cs[c].fut = t)
        THEN Freed
        ELSE ts[t]]

\* a call receives the outcome of the future it awaited
Served(task) == [task EXCEPT !.served = task.served + 1]

\* the last value a call returned from the cache without going to the deduplicator
\* is not kept: only calls that reach get_or_create are followed

\* coc_get(path) up to its first suspension: the cache check, then get_or_create
Call ==
    \E c \in Callers, k \in Keys :
        LET cached == CacheGetValue(api_cache, k, TtlOf(k), now)
            p == PendingFor(pending, k)
            beside == \E t \in TaskIds : tasks[t].key = k /\ Running(t)
        IN  /\ callers[c].pc = "idle"
            /\ api_cache' = CacheAfterGet(api_cache, k, TtlOf(k), now)
            /\ IF cached # None
               THEN UNCHANGED <<callers, pending, tasks, nextId>>
               ELSE IF p # 0 /\ ~Running(p)
               THEN \* the future found is already done: await returns at once,
                    \* then the finally block
                    /\ pending' = PendingAfterWait(pending, k, p)
                    /\ tasks' = Collect([tasks EXCEPT
                                            ![p] = [Served(tasks[p]) EXCEPT !.reused = TRUE]],
                                        pending', callers)
                    /\ UNCHANGED <<callers, nextId>>
               ELSE IF p # 0
               THEN /\ callers' = [callers EXCEPT ![c] =
                          [pc |-> "awaiting", key |-> k, fut |-> p, must_cancel |-> FALSE]]
                    /\ UNCHANGED <<pending, tasks, nextId>>
               ELSE /\ nextId <= MaxFetches
                    /\ tasks' = Append(tasks, NewTask(k, beside))
                    /\ pending' = [pending EXCEPT ![k] = nextId]
                    /\ nextId' = nextId + 1
                    /\ callers' = [callers EXCEPT ![c] =
                          [pc |-> "awaiting", key |-> k, fut |-> nextId,
                           must_cancel |-> FALSE]]
            /\ SelectionUnchanged
            /\ UNCHANGED <<coc_key_lock, clockVars>>
            /\ OnlyGateway

\* get_or_create after "await future": the caller resumes with the future's
\* outcome (with CancelledError when it was cancelled itself), then the finally block
Wake ==
    \E c \in Callers :
        LET t == callers[c].fut
        IN  /\ callers[c].pc = "awaiting"
            /\ ~Running(t)
            /\ callers' = [callers EXCEPT ![c] = IdleCaller]
            /\ pending' = PendingAfterWait(pending, callers[c].key, t)
            /\ tasks' = Collect(IF callers[c].must_cancel THEN tasks
                                ELSE [tasks EXCEPT ![t] = Served(tasks[t])],
                                pending', callers')
            /\ SelectionUnchanged
            /\ UNCHANGED <<nextId, coc_key_lock, api_cache, clockVars>>
            /\ OnlyGateway

\* mutant: the failover asks for _coc_key_lock again while it holds it
AfterFailure_relock(task) == {[task EXCEPT !.pc = "fo_lock"]}

\* the task after its request with a credential failed, holding _coc_key_lock:
\* the failover loop sends to the next credential not tried yet, or ends in None
AfterFailure(task) ==
    LET left == FailoverCandidates(task.cred) \ Range(Tail(task.tried))
    IN  IF left = {}
        THEN {Done(task, NoneOutcome)}
        ELSE {[task EXCEPT !.pc = "fo_http", !.tried = Append(task.tried, k)] : k \in left}

\* the fetch task begins: key = await select_coc_key(), then
\* _try_key_and_fetch(key, url) takes coc_semaphore and sends the first request
TaskStart ==
    \E t \in TaskIds, probe \in ProbeResults :
        /\ tasks[t].pc = "select"
        /\ InFlight < COC_CONCURRENCY
        /\ IF SelectionFresh
           THEN /\ tasks' = [tasks EXCEPT ![t].pc = "first_http",
                                          ![t].cred = selected_coc_key,
                                          ![t].tried = <<selected_coc_key>>]
                /\ SelectionUnchanged
           ELSE /\ coc_key_lock = 0
                /\ selected_coc_key' = KeyForIp(EgressIp(probe))
                /\ selected_coc_key_ts' = now
                /\ cached_ip' = IF ProbeCached(probe) THEN probe ELSE cached_ip
                /\ cached_ip_ts' = IF ProbeCached(probe) THEN now ELSE cached_ip_ts
                /\ tasks' = [tasks EXCEPT ![t].pc = "first_http",
                                          ![t].cred = KeyForIp(EgressIp(probe)),
                                          ![t].tried = <<KeyForIp(EgressIp(probe))>>]
                /\ selected_by_failover' = FALSE
        /\ UNCHANGED <<pending, nextId, callers, coc_key_lock, api_cache, clockVars>>
        /\ OnlyGateway

\* the answer to the first request: cache and return on 200; on failure enter
\* the failover under _coc_key_lock, waiting for the lock when it is held
TaskReply ==
    \E t \in TaskIds, reply \in Replies :
        /\ tasks[t].pc = "first_http"
        /\ IF reply = "ok"
           THEN /\ tasks' = [tasks EXCEPT ![t] = Done(tasks[t], ValueOutcome(DocOf(t)))]
                /\ api_cache' = CacheAfterSet(api_cache, tasks[t].key, DocOf(t), now)
                /\ UNCHANGED coc_key_lock
           ELSE IF reply = "raise"
           THEN /\ tasks' = [tasks EXCEPT ![t] = Done(tasks[t], ErrorOutcome)]
                /\ UNCHANGED <<api_cache, coc_key_lock>>
           ELSE IF coc_key_lock # 0
           THEN /\ tasks' = [tasks EXCEPT ![t].pc = "fo_lock"]
                /\ UNCHANGED <<api_cache, coc_key_lock>>
           ELSE /\ InFlight - 1 < COC_CONCURRENCY
                /\ \E next \in AfterFailure(tasks[t]) :
                      /\ tasks' = [tasks EXCEPT ![t] = next]
                      /\ coc_key_lock' = IF next.pc = "done" THEN 0 ELSE t
                /\ UNCHANGED api_cache
        /\ SelectionUnchanged
        /\ UNCHANGED <<pending, nextId, callers, clockVars>>
        /\ OnlyGateway

\* async with _coc_key_lock, once the lock is free: the failover loop begins
TaskFailoverLock ==
    \E t \in TaskIds :
        /\ tasks[t].pc = "fo_lock"
        /\ coc_key_lock = 0
        /\ InFlight < COC_CONCURRENCY
        /\ \E next \in AfterFailure(tasks[t]) :
              /\ tasks' = [tasks EXCEPT ![t] = next]
              /\ coc_key_lock' = IF next.pc = "done" THEN 0 ELSE t
        /\ SelectionUnchanged
        /\ UNCHANGED <<pending, nextId, callers, api_cache, clockVars>>
        /\ OnlyGateway

\* the answer to a failover request: on 200 the credential becomes the selection;
\* on failure the loop goes on
TaskFailoverReply ==
    \E t \in TaskIds, reply \in Replies :
        LET k == tasks[t].tried[Len(tasks[t].tried)]
        IN  /\ tasks[t].pc = "fo_http"
            /\ IF reply = "ok"
               THEN /\ tasks' = [tasks EXCEPT ![t] = Done(tasks[t], ValueOutcome(DocOf(t)))]
                    /\ selected_coc_key' = k
                    /\ selected_coc_key_ts' = now
                    /\ selected_by_failover' = TRUE
                    /\ api_cache' = CacheAfterSet(api_cache, tasks[t].key, DocOf(t), now)
                    /\ coc_key_lock' = 0
               ELSE IF reply = "raise"
               THEN /\ tasks' = [tasks EXCEPT ![t] = Done(tasks[t], ErrorOutcome)]
                    /\ coc_key_lock' = 0
                    /\ UNCHANGED <<selected_coc_key, selected_coc_key_ts, selected_by_failover,
                                   api_cache>>
               ELSE /\ InFlight - 1 < COC_CONCURRENCY
                    /\ \E next \in AfterFailure(tasks[t]) :
                          /\ tasks' = [tasks EXCEPT ![t] = next]
                          /\ coc_key_lock' = IF next.pc = "done" THEN 0 ELSE t
                    /\ UNCHANGED <<selected_coc_key, selected_coc_key_ts, selected_by_failover,
                                   api_cache>>
            /\ UNCHANGED <<cached_ip, cached_ip_ts, pending, nextId, callers, clockVars>>
            /\ OnlyGateway

\* a caller awaiting the future is cancelled (stop_clan_tasks: task.cancel()):
\* the cancellation is passed on to the future it awaits
Cancel ==
    \E c \in Callers :
        LET t == callers[c].fut
        IN  /\ callers[c].pc = "awaiting"
            /\ ~callers[c].must_cancel
            /\ IF Running(t)
               THEN /\ tasks' = [tasks EXCEPT ![t] = Done(tasks[t], CancelledOutcome)]
                    /\ coc_key_lock' = IF coc_key_lock = t THEN 0 ELSE coc_key_lock
               ELSE UNCHANGED <<tasks, coc_key_lock>>
            /\ callers' = [callers EXCEPT ![c].must_cancel = TRUE]
            /\ SelectionUnchanged
            /\ UNCHANGED <<pending, nextId, api_cache, clockVars>>
            /\ OnlyGateway

\* the clear-cache command: api_cache.clear(), then request_deduplicator.clear(),
\* which drops the entries whose future is done
ClearCaches ==
    /\ api_cache' = CacheCleared
    /\ pending' = [k \in Keys |->
                      IF pending[k] # 0 /\ ~Running(pending[k]) THEN 0 ELSE pending[k]]
    /\ tasks' = Collect(tasks, pending', callers)
    /\ SelectionUnchanged
    /\ UNCHANGED <<nextId, callers, coc_key_lock, clockVars>>
    /\ OnlyGateway

\* the steps by which the clock advances between two steps of the gateway: the
\* longest TTL, after which every cached value and the selection have expired
TickSteps == {COC_IP_CACHE_TTL}

\* time passes
Tick ==
    \E d \in TickSteps :
        /\ ticks < MaxTicks
        /\ now' = now + d
        /\ ticks' = ticks + 1
        /\ SelectionUnchanged
        /\ UNCHANGED <<pending, tasks, nextId, callers, coc_key_lock, api_cache>>
        /\ OnlyGateway

GatewayNext ==
    \/ Call \/ Wake \/ TaskStart \/ TaskReply \/ TaskFailoverLock
    \/ TaskFailoverReply \/ Cancel \/ ClearCaches \/ Tick

\* a step of the fetch task t: the event loop runs every task that is ready,
\* and every request and probe is answered (the requests carry a timeout)
TaskStep(t) ==
    /\ t \in TaskIds
    /\ TaskStart \/ TaskReply \/ TaskFailoverLock \/ TaskFailoverReply
    /\ tasks'[t] # tasks[t]

\* the call of caller c resumes from 'await future'
WakeOf(c) == Wake /\ callers[c].pc = "awaiting" /\ callers'[c].pc = "idle"

\* the scheduling of asyncio: a coroutine that stays ready is run
GatewayFair ==
    /\ \A t \in 1..(MaxFetches + 1) : WF_vars(TaskStep(t))
    /\ \A c \in Callers : WF_vars(WakeOf(c))

\* ========================================================================
\* LIFE OF A TRACKER LOOP: start, poll ticks, stop
\*   track_clan (discordwelcomebot.py): stopped by stop_clan_tasks, task.cancel()
\*   track_joins_leaves (trackers.py):  stopped by ClanTracker.stop, the flag
\* The war and upgrade loops of each program are built like its membership loop.
\* ========================================================================
LoopNames == {"track_clan", "track_joins_leaves"}

\* the tick is wrapped in try / except Exception (trackers.py:41, 92-94);
\* track_clan has no handler around its tick
Catches(l) == l = "track_joins_leaves"

\* the loop is stopped through self.running (trackers.py:254-256); track_clan
\* is stopped by cancelling its task
StopsByFlag(l) == l = "track_joins_leaves"

\* where a loop stands:
\*   sleep:    await asyncio.sleep(CHECK_INTERVAL) that opens a tick
\*   fetch:    awaiting the member list
\*   announce: diffing, awaiting the send of an event
\*   backoff:  await asyncio.sleep(CHECK_INTERVAL) of the except handler
\*   exited:   the while condition was false, the coroutine returned
\*   dead:     an exception left the coroutine
\*   cancelled
\* history: stopped (the stop was requested), late (an event was sent after it)
LoopInit ==
    /\ loops = [l \in LoopNames |->
                  [pc |-> "sleep", running |-> TRUE, stopped |-> FALSE, late |-> FALSE]]
    /\ client_closed = FALSE

OnlyLoops ==
    UNCHANGED <<memberVars, warVars, donationVars, clockVars, cacheVars, gatewayVars,
                apiVars, semVars, selectVars, upgradeVars, botVars>>

\* back at "while not client.is_closed() [and self.running]": the next tick
\* begins with its sleep, or the loop ends
AtTop(l, lp) ==
    IF client_closed \/ (StopsByFlag(l) /\ ~lp.running)
    THEN [lp EXCEPT !.pc = "exited"]
    ELSE [lp EXCEPT !.pc = "sleep"]

\* an exception is raised inside the tick
Failed(l, lp) ==
    IF Catches(l) THEN [lp EXCEPT !.pc = "backoff"] ELSE [lp EXCEPT !.pc = "dead"]

\* the sleep is over: the member list is asked for
LoopSlept ==
    \E l \in LoopNames :
        /\ loops[l].pc = "sleep"
        /\ loops' = [loops EXCEPT ![l].pc = "fetch"]
        /\ UNCHANGED client_closed
        /\ OnlyLoops

\* the answer: a roster that is diffed, nothing to diff ("continue"), or an
\* exception out of the client (a body json() rejects, a cancelled shared fetch)
LoopFetched ==
    \E l \in LoopNames, answer \in {"roster", "nothing", "raise"} :
        /\ loops[l].pc = "fetch"
        /\ loops' = [loops EXCEPT ![l] =
                        IF answer = "roster" THEN [loops[l] EXCEPT !.pc = "announce"]
                        ELSE IF answer = "nothing" THEN AtTop(l, loops[l])
                        ELSE Failed(l, loops[l])]
        /\ UNCHANGED client_closed
        /\ OnlyLoops

\* the diff: an event is sent and the tick ends, or an exception is raised
\* outside the handlers of the sends
LoopAnnounced ==
    \E l \in LoopNames, outcome \in {"sent", "raise"} :
        /\ loops[l].pc = "announce"
        /\ loops' = [loops EXCEPT ![l] =
                        IF outcome = "sent"
                        THEN AtTop(l, [loops[l] EXCEPT !.late = loops[l].late \/ loops[l].stopped])
                        ELSE Failed(l, loops[l])]
        /\ UNCHANGED client_closed
        /\ OnlyLoops

\* except Exception: print, await asyncio.sleep(CHECK_INTERVAL), back to the top
LoopBackoff ==
    \E l \in LoopNames :
        /\ loops[l].pc = "backoff"
        /\ loops' = [loops EXCEPT ![l] = AtTop(l, loops[l])]
        /\ UNCHANGED client_closed
        /\ OnlyLoops

\* stop_clan_tracking: tracker.stop() sets self.running = False
StopTracker ==
    \E l \in LoopNames :
        /\ StopsByFlag(l)
        /\ ~loops[l].stopped
        /\ loops' = [loops EXCEPT ![l].running = FALSE, ![l].stopped = TRUE]
        /\ UNCHANGED client_closed
        /\ OnlyLoops

\* stop_clan_tasks: t.cancel(); a task suspended in an await is cancelled
\* there, a task that has ended is left as it is
StopClanTasks ==
    \E l \in LoopNames :
        /\ ~StopsByFlag(l)
        /\ ~loops[l].stopped
        /\ loops' = [loops EXCEPT
                        ![l].pc = IF loops[l].pc \in {"sleep", "fetch", "announce", "backoff"}
                                  THEN "cancelled" ELSE loops[l].pc,
                        ![l].stopped = TRUE]
        /\ UNCHANGED client_closed
        /\ OnlyLoops

\* the client is closed
CloseClient ==
    /\ ~client_closed
    /\ client_closed' = TRUE
    /\ UNCHANGED loops
    /\ OnlyLoops

LoopNext ==
    \/ LoopSlept \/ LoopFetched \/ LoopAnnounced \/ LoopBackoff
    \/ StopTracker \/ StopClanTasks \/ CloseClient

\* ========================================================================
\* COCAPI._make_request (coc_api.py): the client of the tracker classes
\* ========================================================================
\* keys = list(COC_API_KEYS.values())
ApiKeyList == <<COC_API_KEYS["ip1"], COC_API_KEYS["ip2"], COC_API_KEYS["*"]>>

\* what one request ends in: 200 with a JSON document, 404, another status /
\* timeout / client error, or a 200 whose body json() rejects
ApiReplies == {"ok", "notfound", "fail", "raise"}

\* get_clan: ttl=CLAN_CACHE_TTL
ApiTtl == CLAN_CACHE_TTL

\* history record of the cache check that opens a _make_request call:
\*   fresh:   the key had an entry younger than ttl
\*   absent:  a 404 answer for the key was cached less than ttl ago
\*   value:   what api_cache.get returned
\*   waited:  the call went on to get_or_create
\*   factory: get_or_create created a task running _fetch
NoCheck == [called |-> FALSE, key |-> "", fresh |-> FALSE, absent |-> FALSE,
            value |-> None, waited |-> FALSE, factory |-> FALSE]

NoAbsence == [valid |-> FALSE, at |-> 0]

ApiInit ==
    /\ lastCheck = NoCheck
    /\ absentSince = [k \in Keys |-> NoAbsence]

\* requests holding COCAPI.semaphore (taken once for the whole loop over the keys)
ApiInFlight == Cardinality({t \in TaskIds : tasks[t].pc = "http"})

\* asyncio.create_task(factory()): the task has not run yet
NewApiTask(key, beside) ==
    [key |-> key, pc |-> "created", cred |-> None, tried |-> <<>>, outcome |-> NoOutcome,
     beside |-> beside, served |-> 0, reused |-> FALSE]

OnlyApi ==
    /\ SelectionUnchanged
    /\ UNCHANGED <<memberVars, warVars, donationVars, lastSet, cacheGot, coc_key_lock,
                   semVars, selectVars, upgradeVars, loopVars, botVars>>

\* _make_request(path, cache_key, ttl) up to its first suspension: the cache
\* check, then get_or_create
ApiCall ==
    \E c \in Callers, k \in Keys :
        LET cached == CacheGetValue(api_cache, k, ApiTtl, now)
            p == PendingFor(pending, k)
            beside == \E t \in TaskIds : tasks[t].key = k /\ Running(t)
        IN  /\ callers[c].pc = "idle"
            /\ api_cache' = CacheAfterGet(api_cache, k, ApiTtl, now)
            /\ lastCheck' = [called |-> TRUE, key |-> k,
                             fresh |-> api_cache[k].present /\ now - api_cache[k].ts < ApiTtl,
                             absent |-> absentSince[k].valid /\ now - absentSince[k].at < ApiTtl,
                             value |-> cached,
                             waited |-> cached = None,
                             factory |-> cached = None /\ p = 0]
            /\ IF cached # None
               THEN UNCHANGED <<callers, pending, tasks, nextId>>
               ELSE IF p # 0 /\ ~Running(p)
               THEN /\ pending' = PendingAfterWait(pending, k, p)
                    /\ tasks' = Collect([tasks EXCEPT
                                            ![p] = [Served(tasks[p]) EXCEPT !.reused = TRUE]],
                                        pending', callers)
                    /\ UNCHANGED <<callers, nextId>>
               ELSE IF p # 0
               THEN /\ callers' = [callers EXCEPT ![c] =
                          [pc |-> "awaiting", key |-> k, fut |-> p, must_cancel |-> FALSE]]
                    /\ UNCHANGED <<pending, tasks, nextId>>
               ELSE /\ nextId <= MaxFetches
                    /\ tasks' = Append(tasks, NewApiTask(k, beside))
                    /\ pending' = [pending EXCEPT ![k] = nextId]
                    /\ nextId' = nextId + 1
                    /\ callers' = [callers EXCEPT ![c] =
                          [pc |-> "awaiting", key |-> k, fut |-> nextId,
                           must_cancel |-> FALSE]]
            /\ UNCHANGED <<absentSince, clockVars>>
            /\ OnlyApi

\* get_or_create after "await future", then its finally block
ApiWake ==
    \E c \in Callers :
        LET t == callers[c].fut
        IN  /\ callers[c].pc = "awaiting"
            /\ ~Running(t)
            /\ callers' = [callers EXCEPT ![c] = IdleCaller]
            /\ pending' = PendingAfterWait(pending, callers[c].key, t)
            /\ tasks' = Collect([tasks EXCEPT ![t] = Served(tasks[t])], pending', callers')
            /\ UNCHANGED <<nextId, api_cache, lastCheck, absentSince, clockVars>>
            /\ OnlyApi

\* _fetch begins: async with self.semaphore, then the request with the first key
ApiTaskStart ==
    \E t \in TaskIds :
        /\ tasks[t].pc = "created"
        /\ ApiInFlight < COC_CONCURRENCY
        /\ tasks' = [tasks EXCEPT ![t].pc = "http", ![t].cred = ApiKeyList[1],
                                  ![t].tried = <<ApiKeyList[1]>>]
        /\ UNCHANGED <<pending, nextId, callers, api_cache, lastCheck, absentSince, clockVars>>
        /\ OnlyApi

\* the answer to the request with keys[i]: 200 caches and returns the document,
\* 404 caches None and returns None, anything else goes on to the next key and
\* returns None after the last one; a body json() rejects raises out of _fetch
ApiTaskReply ==
    \E t \in TaskIds, reply \in ApiReplies :
        LET i == Len(tasks[t].tried)
            k == tasks[t].key
        IN  /\ tasks[t].pc = "http"
            /\ IF reply = "ok"
               THEN /\ tasks' = [tasks EXCEPT ![t] = Done(tasks[t], ValueOutcome(DocOf(t)))]
                    /\ api_cache' = CacheAfterSet(api_cache, k, DocOf(t), now)
                    /\ absentSince' = [absentSince EXCEPT ![k] = NoAbsence]
               ELSE IF reply = "notfound"
               THEN /\ tasks' = [tasks EXCEPT ![t] = Done(tasks[t], NoneOutcome)]
                    /\ api_cache' = CacheAfterSet(api_cache, k, None, now)
                    /\ absentSince' = [absentSince EXCEPT ![k] = [valid |-> TRUE, at |-> now]]
               ELSE IF reply = "raise"
               THEN /\ tasks' = [tasks EXCEPT ![t] = Done(tasks[t], ErrorOutcome)]
                    /\ UNCHANGED <<api_cache, absentSince>>
               ELSE IF i < Len(ApiKeyList)
               THEN /\ tasks' = [tasks EXCEPT ![t].cred = ApiKeyList[i + 1],
                                              ![t].tried = Append(tasks[t].tried,
                                                                  ApiKeyList[i + 1])]
                    /\ UNCHANGED <<api_cache, absentSince>>
               ELSE /\ tasks' = [tasks EXCEPT ![t] = Done(tasks[t], NoneOutcome)]
                    /\ UNCHANGED <<api_cache, absentSince>>
            /\ UNCHANGED <<pending, nextId, callers, lastCheck, clockVars>>
            /\ OnlyApi

\* the steps by which the clock advances between two calls of the client
ApiTickSteps == {WAR_CACHE_TTL, CLAN_CACHE_TTL}

ApiTick ==
    \E d \in ApiTickSteps :
        /\ ticks < MaxTicks
        /\ now' = now + d
        /\ ticks' = ticks + 1
        /\ UNCHANGED <<pending, tasks, nextId, callers, api_cache, lastCheck, absentSince>>
        /\ OnlyApi

ApiNext == ApiCall \/ ApiWake \/ ApiTaskStart \/ ApiTaskReply \/ ApiTick

\* ========================================================================
\* coc_semaphore: asyncio.Semaphore(COC_CONCURRENCY) around every request
\* (_try_key_and_fetch; COCAPI._fetch takes COCAPI.semaphore the same way)
\* ========================================================================
Requesters == 1..MaxRequests

\* mutant: acquire() never finds the semaphore exhausted
SemFree_always(value) == TRUE

\* Semaphore.acquire: the counter is taken without waiting while it is positive
SemFree(value) == value > 0

\* the requests between "async with client.coc_semaphore" and its exit
SemInFlight == Cardinality({r \in Requesters : requests[r] = "in_flight"})

SemInit ==
    /\ sem_value = COC_CONCURRENCY
    /\ requests = [r \in Requesters |-> "idle"]

OnlySem ==
    UNCHANGED <<memberVars, warVars, donationVars, clockVars, cacheVars, gatewayVars,
                apiVars, selectVars, upgradeVars, loopVars, botVars>>

\* _try_key_and_fetch reaches "async with client.coc_semaphore": it enters at
\* once when the counter is positive, else it waits
SemAcquire ==
    \E r \in Requesters :
        /\ requests[r] = "idle"
        /\ IF SemFree(sem_value)
           THEN /\ sem_value' = sem_value - 1
                /\ requests' = [requests EXCEPT ![r] = "in_flight"]
           ELSE /\ requests' = [requests EXCEPT ![r] = "waiting"]
                /\ UNCHANGED sem_value
        /\ OnlySem

\* a waiter is woken after a release and takes the counter
SemGranted ==
    \E r \in Requesters :
        /\ requests[r] = "waiting"
        /\ SemFree(sem_value)
        /\ sem_value' = sem_value - 1
        /\ requests' = [requests EXCEPT ![r] = "in_flight"]
        /\ OnlySem

\* the request ends (answer, timeout, client error, exception or cancellation):
\* the "async with" block is left and release() adds one to the counter
SemRelease ==
    \E r \in Requesters :
        /\ requests[r] = "in_flight"
        /\ sem_value' = sem_value + 1
        /\ requests' = [requests EXCEPT ![r] = "idle"]
        /\ OnlySem

\* a waiting call is cancelled before it got the semaphore
SemAbandon ==
    \E r \in Requesters :
        /\ requests[r] = "waiting"
        /\ requests' = [requests EXCEPT ![r] = "idle"]
        /\ UNCHANGED sem_value
        /\ OnlySem

SemNext == SemAcquire \/ SemGranted \/ SemRelease \/ SemAbandon

\* ========================================================================
\* select_coc_key / get_egress_ip on their own, over every configuration
\* ========================================================================
\* the entries COC_API_KEYS can be configured with
ConfigEntries == {<<ip, COC_API_KEYS[ip]>> : ip \in DOMAIN COC_API_KEYS}

\* COC_API_KEYS as parsed from the environment: a mapping in insertion order,
\* modelled as a list of <<ip, credential>> with no ip twice; empty when nothing
\* is configured
Configs ==
    {cfg \in UNION {[1..n -> ConfigEntries] : n \in 0..Cardinality(ConfigEntries)} :
        \A i, j \in 1..Len(cfg) : i # j => cfg[i][1] # cfg[j][1]}

\* the configuration the gateway model runs with
DefaultConfig == <<<<"ip1", COC_API_KEYS["ip1"]>>, <<"ip2", COC_API_KEYS["ip2"]>>,
                   <<"*", COC_API_KEYS["*"]>>>>

\* ip in COC_API_KEYS
CfgHas(cfg, ip) == \E i \in 1..Len(cfg) : cfg[i][1] = ip

\* COC_API_KEYS[ip]
CfgGet(cfg, ip) == cfg[CHOOSE i \in 1..Len(cfg) : cfg[i][1] = ip][2]

\* mutant: the first configured credential, whatever the egress IP
SelectFor_first(cfg, ip) == IF Len(cfg) > 0 THEN cfg[1][2] ELSE None

\* select_coc_key under the lock: the credential of the detected IP, else the
\* "*" credential, else the first value of the mapping, else None
SelectFor(cfg, ip) ==
    IF ip # None /\ CfgHas(cfg, ip) THEN CfgGet(cfg, ip)
    ELSE IF CfgHas(cfg, "*") THEN CfgGet(cfg, "*")
    ELSE IF Len(cfg) > 0 THEN cfg[1][2]
    ELSE None

\* what the probe answers: a configured address, another address, or a failure
ProbeAnswers == {"ip1", "ip2", "ip9", None}

\* get_egress_ip: if _cached_ip and (now - _cached_ip_ts) < COC_IP_CACHE_TTL
IpFresh == cached_ip # None /\ now - cached_ip_ts < COC_IP_CACHE_TTL

\* history record of a select_coc_key call:
\*   fresh / prev:     the stored selection was younger than the TTL; that selection
\*   ipFresh / prevIp: the cached address was younger than the TTL; that address
\*   ip:               what get_egress_ip returned (None when it was not called)
\*   probed:           the probe request was sent
\*   prevTs:           the timestamp of the stored selection before the call
\*   missed:           the call opened a _fetch that went on to return None
NoSelect == [called |-> FALSE, result |-> None, fresh |-> FALSE, prev |-> None,
             ipFresh |-> FALSE, prevIp |-> None, ip |-> None, probed |-> FALSE,
             prevTs |-> 0, missed |-> FALSE]

SelectInit ==
    /\ coc_api_keys \in Configs
    /\ selectGot = NoSelect

SelectIdle ==
    /\ coc_api_keys = DefaultConfig
    /\ selectGot = NoSelect

OnlySelect ==
    UNCHANGED <<memberVars, warVars, donationVars, cacheVars, pending, tasks, nextId,
                callers, coc_key_lock, apiVars, semVars, coc_api_keys, upgradeVars, loopVars,
                botVars>>

\* one call of select_coc_key (the lock is free: no other call is inside)
SelectCall(missed) ==
    \E probe \in ProbeAnswers :
        LET ip  == IF IpFresh THEN cached_ip ELSE probe
            key == SelectFor(coc_api_keys, ip)
            got == [called |-> TRUE, result |-> None,
                    fresh |-> selected_coc_key # None
                              /\ now - selected_coc_key_ts < COC_IP_CACHE_TTL,
                    prev |-> selected_coc_key,
                    ipFresh |-> cached_ip # None /\ now - cached_ip_ts < COC_IP_CACHE_TTL,
                    prevIp |-> cached_ip, ip |-> None, probed |-> FALSE,
                    prevTs |-> selected_coc_key_ts, missed |-> missed]
        IN  /\ IF SelectionFresh
               THEN /\ selectGot' = [got EXCEPT !.result = selected_coc_key]
                    /\ SelectionUnchanged
               ELSE /\ selectGot' = [got EXCEPT !.result = key, !.ip = ip,
                                                !.probed = ~IpFresh]
                    /\ cached_ip' = IF ~IpFresh /\ probe # None THEN probe ELSE cached_ip
                    /\ cached_ip_ts' = IF ~IpFresh /\ probe # None THEN now ELSE cached_ip_ts
                    /\ selected_coc_key' = IF key # None THEN key ELSE selected_coc_key
                    /\ selected_coc_key_ts' = IF key # None THEN now ELSE selected_coc_key_ts
                    /\ selected_by_failover' = (key = None /\ selected_by_failover)
            /\ UNCHANGED clockVars
            /\ OnlySelect

SelectCocKey == SelectCall(FALSE)

\* a whole run of _fetch, alone, in which every request fails (or no credential
\* is configured): select_coc_key, the first request, the failover loop over
\* the other credentials, return None; only select_coc_key writes the selection
FetchMiss == SelectCall(TRUE)

\* _fetch, failover: a credential other than the selected one answered 200 and
\* is stored as the selection
SelectStored ==
    \E i \in 1..Len(coc_api_keys) :
        /\ selected_coc_key' = coc_api_keys[i][2]
        /\ selected_coc_key_ts' = now
        /\ selected_by_failover' = TRUE
        /\ selectGot' = NoSelect
        /\ UNCHANGED <<cached_ip, cached_ip_ts, clockVars>>
        /\ OnlySelect

\* the clock advances by half the TTL or by the whole TTL
SelectTickSteps == {COC_IP_CACHE_TTL \div 2, COC_IP_CACHE_TTL}

SelectTick ==
    \E d \in SelectTickSteps :
        /\ ticks < MaxTicks
        /\ now' = now + d
        /\ ticks' = ticks + 1
        /\ selectGot' = NoSelect
        /\ SelectionUnchanged
        /\ OnlySelect

SelectNext == SelectCocKey \/ FetchMiss \/ SelectStored \/ SelectTick

\* ========================================================================
\* fixed_time_reminder_loop (trackers.py, discordwelcomebot.py)
\* ========================================================================
\* the clock counts half minutes: the loop sleeps 30 seconds between iterations
\* now.hour
HourOf(clock) == (clock \div (2 * 60)) % 24

\* now.minute
MinuteOf(clock) == (clock \div 2) % 60

DayOf(clock) == clock \div (2 * 60 * 24)

\* the loop starts at any time of the day with sent_today_hours = set()
ReminderInit ==
    /\ rem_clock \in 0..(2 * 60 * 24 - 1)
    /\ sent_today_hours = {}
    /\ reminder_log = [day |-> 0, hour |-> 0, count |-> 0, wakes |-> 0]

ReminderIdle ==
    /\ rem_clock = 0
    /\ sent_today_hours = {}
    /\ reminder_log = [day |-> 0, hour |-> 0, count |-> 0, wakes |-> 0]

OnlyReminder ==
    UNCHANGED <<memberVars, warVars, donationVars, clockVars, cacheVars, gatewayVars,
                apiVars, semVars, selectVars, upgradeVars, loopVars, clanListVars,
                trackerVars>>

\* one iteration of the while loop.  pendingNow: some clan is in war with a
\* member who has not attacked (out_lines is not empty, the reminder is sent);
\* took: the half minutes until the next iteration, the sleep of 30 seconds and
\* what the iteration itself took
ReminderWake ==
    \E pendingNow \in BOOLEAN, took \in {1, 2} :
        LET hour    == HourOf(rem_clock)
            minute  == MinuteOf(rem_clock)
            day     == DayOf(rem_clock)
            cleared == IF hour = 0 /\ minute = 0 THEN {} ELSE sent_today_hours
            due     == minute = 0 /\ hour % 2 = 0 /\ hour \notin cleared
            again   == reminder_log.count > 0 /\ reminder_log.day = day
                       /\ reminder_log.hour = hour
        IN  /\ reminder_log.wakes < MaxWakes
            /\ sent_today_hours' = IF due THEN cleared \cup {hour} ELSE cleared
            /\ reminder_log' =
                  IF due /\ pendingNow
                  THEN [day |-> day, hour |-> hour,
                        count |-> IF again THEN reminder_log.count + 1 ELSE 1,
                        wakes |-> reminder_log.wakes + 1]
                  ELSE [reminder_log EXCEPT !.wakes = reminder_log.wakes + 1]
            /\ rem_clock' = rem_clock + took
            /\ OnlyReminder

\* ========================================================================
\* THE MONITORED CLANS: client.clans, addclan, removeclan, and the global
\* loops started by on_ready (bot.py, trackers.py)
\* ========================================================================
ClanTags == {"#A", "#B", "#C"}

NoScan == [done |-> FALSE, clans |-> {}, monitored |-> {}]

\* client.clans = load_clans(): one list object holding the stored clans
ClanListInit ==
    /\ clan_lists \in {<<c>> : c \in SUBSET ClanTags}
    /\ client_clans = 1
    /\ loop_clans = 0
    /\ lastScan = NoScan

ClanListIdle ==
    /\ clan_lists = <<{}>>
    /\ client_clans = 1
    /\ loop_clans = 0
    /\ lastScan = NoScan

OnlyClanList ==
    UNCHANGED <<memberVars, warVars, donationVars, clockVars, cacheVars, gatewayVars,
                apiVars, semVars, selectVars, upgradeVars, loopVars, reminderVars,
                trackerVars>>

\* on_ready: create_task(fixed_time_reminder_loop(client, client.coc_api,
\* client.clans)) and the same for monthly_donation_snapshot_loop: the loops
\* receive the list object client.clans is bound to at that moment
OnReady ==
    /\ loop_clans = 0
    /\ loop_clans' = client_clans
    /\ UNCHANGED <<clan_lists, client_clans, lastScan>>
    /\ OnlyClanList

\* addclan: client.clans.append(new_clan), in place
AddClan ==
    \E tag \in ClanTags :
        /\ tag \notin clan_lists[client_clans]
        /\ clan_lists' = [clan_lists EXCEPT ![client_clans] = @ \cup {tag}]
        /\ UNCHANGED <<client_clans, loop_clans, lastScan>>
        /\ OnlyClanList

\* removeclan: client.clans = [c for c in client.clans if c["tag"] != tag]:
\* a new list object, to which the attribute is bound
RemoveClan ==
    \E tag \in ClanTags :
        /\ tag \in clan_lists[client_clans]
        /\ Len(clan_lists) < MaxLists
        /\ clan_lists' = Append(clan_lists, clan_lists[client_clans] \ {tag})
        /\ client_clans' = Len(clan_lists) + 1
        /\ UNCHANGED <<loop_clans, lastScan>>
        /\ OnlyClanList

\* a scan of a global loop begins: 'for clan in clans'
Scan ==
    /\ loop_clans # 0
    /\ lastScan' = [done |-> TRUE, clans |-> clan_lists[loop_clans],
                    monitored |-> clan_lists[client_clans]]
    /\ UNCHANGED <<clan_lists, client_clans, loop_clans>>
    /\ OnlyClanList

ClanListNext == OnReady \/ AddClan \/ RemoveClan \/ Scan

\* ========================================================================
\* THE TRACKERS OF ONE CLAN: start_clan_tracking, stop_clan_tracking and the
\* four loops of a ClanTracker up to their while condition (bot.py, trackers.py)
\* ========================================================================
\* the four tasks, in the order start_clan_tracking creates them
TrackerLoops == {"track_joins_leaves", "track_war", "check_hero_upgrades", "track_upgrades"}

\* where a loop task stands: "channel" (suspended in fetch_channel), "polling"
\* (inside the while loop: asleep or in a tick), "exited" (the coroutine returned)
LiveAt == {"channel", "polling"}

\* ClanTracker.__init__ (self.running = False) and the four tasks up to their
\* first suspension.  The tasks run in creation order; wait_until_ready does not
\* suspend once the client is ready.  With the channel in the cache
\* track_joins_leaves sets self.running = True and reaches its sleep before the
\* other three test the flag; without it each task suspends in fetch_channel.
NewTracker(cached) ==
    [running |-> cached, stopped |-> FALSE,
     pc |-> [l \in TrackerLoops |-> IF cached THEN "polling" ELSE "channel"]]

TrackersInit ==
    /\ trackers = <<>>
    /\ clan_trackers = 0
    /\ channel_cached \in BOOLEAN

TrackersIdle ==
    /\ trackers = <<>>
    /\ clan_trackers = 0
    /\ channel_cached = TRUE

BotIdle == ReminderIdle /\ ClanListIdle /\ TrackersIdle

OnlyTrackers ==
    UNCHANGED <<memberVars, warVars, donationVars, clockVars, cacheVars, gatewayVars,
                apiVars, semVars, selectVars, upgradeVars, loopVars, reminderVars,
                clanListVars>>

\* start_clan_tracking(clan): nothing when the clan has a registered tracker
StartClanTracking ==
    /\ clan_trackers = 0
    /\ Len(trackers) < MaxTrackers
    /\ trackers' = Append(trackers, NewTracker(channel_cached))
    /\ clan_trackers' = Len(trackers) + 1
    /\ UNCHANGED channel_cached
    /\ OnlyTrackers

\* stop_clan_tracking(clan_tag): tracker.stop(), del client.clan_trackers[clan_tag]
StopClanTracking ==
    /\ clan_trackers # 0
    /\ trackers' = [trackers EXCEPT ![clan_trackers].running = FALSE,
                                    ![clan_trackers].stopped = TRUE]
    /\ clan_trackers' = 0
    /\ UNCHANGED channel_cached
    /\ OnlyTrackers

\* fetch_channel of one task answers, in whatever order the answers arrive:
\* track_joins_leaves sets self.running = True; then the task tests its while
\* condition for the first time
ChannelFetched ==
    \E i \in 1..Len(trackers), l \in TrackerLoops :
        LET runs == IF l = "track_joins_leaves" THEN TRUE ELSE trackers[i].running
        IN  /\ trackers[i].pc[l] = "channel"
            /\ trackers' = [trackers EXCEPT
                                ![i].running = runs,
                                ![i].pc[l] = IF runs THEN "polling" ELSE "exited"]
            /\ UNCHANGED <<clan_trackers, channel_cached>>
            /\ OnlyTrackers

\* a loop comes back to 'while not self.client.is_closed() and self.running'
\* and finds the flag down
LoopTop ==
    \E i \in 1..Len(trackers), l \in TrackerLoops :
        /\ trackers[i].pc[l] = "polling"
        /\ ~trackers[i].running
        /\ trackers' = [trackers EXCEPT ![i].pc[l] = "exited"]
        /\ UNCHANGED <<clan_trackers, channel_cached>>
        /\ OnlyTrackers

TrackersNext == StartClanTracking \/ StopClanTracking \/ ChannelFetched \/ LoopTop

\* ========================================================================
\* CLAIMS
\* ========================================================================

\* ---- C3 ----------------------------------------------------------------
\* C3: when a known tag has been absent from LEAVE_DEBOUNCE_COUNT consecutive
\* processed polls, the tick of the last of those polls emits its Leave (and the
\* Leave is not put off to a later poll: the run never grows beyond the
\* threshold), the tag is out of strict_join_cache, its miss counter is cleared
\* and the reduced set is what the tick saved last (and is in the file when that
\* write succeeded).
C3_LeaveOnThreshold ==
    \A t \in Tags :
        /\ absentRun[t] <= LEAVE_DEBOUNCE_COUNT
        /\ (lastPoll.kind = "diff" /\ absentRun[t] = LEAVE_DEBOUNCE_COUNT) =>
              /\ t \in emitted.leaves
              /\ t \notin strict_join_cache
              /\ missing_counts[t] = 0
              /\ savedBlob.called
              /\ savedBlob.tags = strict_join_cache
              /\ (savedBlob.written => members_file = FileOf(strict_join_cache))

\* the spec's example: threshold 2, known {A,B}, polls {A},{A}: Leave(B), {A} saved
C3_Witness ==
    /\ LEAVE_DEBOUNCE_COUNT = 2
    /\ lastPoll = [kind |-> "diff", roster |-> {"A"}]
    /\ prevKnown = {"A", "B"}
    /\ absentRun["B"] = 2
    /\ emitted.leaves = {"B"}
    /\ strict_join_cache = {"A"}
    /\ members_file = FileOf({"A"})

\* ---- C4 ----------------------------------------------------------------
\* C4: a Leave is emitted only for a tag that was known and absent in each of the
\* LEAVE_DEBOUNCE_COUNT most recent processed polls; a tag present in a processed
\* poll has no miss counter afterwards and gets no Leave in that tick.
C4_NoEarlyLeave ==
    /\ \A t \in emitted.leaves : absentRun[t] = LEAVE_DEBOUNCE_COUNT
    /\ lastPoll.kind \in {"diff", "bootstrap"} =>
          \A t \in lastPoll.roster : missing_counts[t] = 0 /\ t \notin emitted.leaves

\* B was missed once (threshold 2) and is back: counter 0, no Leave
C4_Witness ==
    /\ LEAVE_DEBOUNCE_COUNT = 2
    /\ lastPoll = [kind |-> "diff", roster |-> {"A", "B"}]
    /\ prevKnown = {"A", "B"}
    /\ missing_counts["B"] = 0
    /\ emitted = NoEvents
    /\ strict_join_cache = {"A", "B"}

\* ---- C5 ----------------------------------------------------------------
\* C5: a tick that begins with an empty strict_join_cache and polls a non-empty
\* roster emits no Join, makes the roster the known set and saves exactly the
\* roster (which is the file's content when the write succeeded).
C5_BootstrapSilent ==
    (lastPoll.kind # "none" /\ prevKnown = {} /\ lastPoll.roster # {}) =>
        /\ emitted = NoEvents
        /\ strict_join_cache = lastPoll.roster
        /\ savedBlob.called
        /\ savedBlob.tags = lastPoll.roster
        /\ (savedBlob.written => members_file = FileOf(lastPoll.roster))

C5_Witness ==
    /\ prevKnown = {}
    /\ lastPoll.roster = {"A", "B", "C"}
    /\ lastPoll.kind # "none"
    /\ emitted = NoEvents
    /\ members_file = FileOf({"A", "B", "C"})

\* ---- C6 ----------------------------------------------------------------
\* C6: with SKIP_EMPTY_MEMBER_LIST set, a tick whose poll is empty emits nothing,
\* saves nothing and leaves strict_join_cache, the file and every miss counter
\* as they were.
C6_EmptyPollDiscarded ==
    [][(SKIP_EMPTY_MEMBER_LIST /\ lastPoll'.roster = {}) =>
          /\ strict_join_cache' = strict_join_cache
          /\ members_file' = members_file
          /\ missing_counts' = missing_counts
          /\ emitted' = NoEvents
          /\ ~savedBlob'.called]_vars

\* an empty poll discarded while B has a pending miss
C6_Witness ==
    /\ SKIP_EMPTY_MEMBER_LIST
    /\ lastPoll.kind = "skipped"
    /\ strict_join_cache = {"A", "B"}
    /\ missing_counts["B"] = 1
    /\ emitted = NoEvents

\* ---- C7 ----------------------------------------------------------------
\* C7: after an in-war poll, a member whose list is longer than its baseline list
\* had exactly the attacks beyond the baseline length announced, in list order;
\* every other member had nothing announced; a poll equal to the baseline
\* announces nothing.
C7_WarSuffix ==
    warPoll.state = "inWar" =>
        /\ \A t \in WarTags :
              LET cur  == IF warPoll.members[t].present THEN warPoll.members[t].attacks ELSE <<>>
                  base == IF warPrev[t].present THEN warPrev[t].attacks ELSE <<>>
              IN  IF Len(cur) > Len(base)
                  THEN /\ Len(warEmitted[t]) = Len(cur) - Len(base)
                       /\ \A i \in 1..Len(warEmitted[t]) : warEmitted[t][i] = cur[Len(base) + i]
                  ELSE warEmitted[t] = <<>>
        /\ (warPoll.members = warPrev => warEmitted = NoHits)

\* the spec's example: baseline P1 with 1 attack, poll with 2: attack #2 announced
C7_Witness ==
    /\ warPoll.state = "inWar"
    /\ warPrev["P1"] = [present |-> TRUE, attacks |-> <<1>>]
    /\ warPoll.members["P1"] = [present |-> TRUE, attacks |-> <<1, 2>>]
    /\ warEmitted["P1"] = <<2>>
    /\ warEmitted["P2"] = <<>>

\* ---- C8 ----------------------------------------------------------------
\* the snapshot of a month, and the one with the greatest earlier month
HasMonth(list, m) == \E i \in 1..Len(list) : list[i].date = m

SnapshotAt(list, m) == list[CHOOSE i \in 1..Len(list) : list[i].date = m]

HasEarlier(list, m) == \E i \in 1..Len(list) : list[i].date < m

Preceding(list, m) ==
    list[CHOOSE i \in 1..Len(list) :
            /\ list[i].date < m
            /\ \A j \in 1..Len(list) : list[j].date < m => list[j].date <= list[i].date]

\* C8: for a month with a snapshot and a preceding snapshot the result is a delta:
\* a member of both snapshots gets max(0, seasonal - previous seasonal), a member
\* missing from the preceding one gets its seasonal, no value is negative, and
\* total_monthly is the sum of the members' values.
C8_MonthlyDelta ==
    LET m    == monthly_result.month
        list == donation_snapshots
    IN  (m # 0 /\ HasMonth(list, m) /\ HasEarlier(list, m)) =>
            LET target == SnapshotAt(list, m).members
                prev   == Preceding(list, m).members
                inT    == {t \in DonTags : target[t].present}
            IN  /\ monthly_result.kind = "delta"
                /\ monthly_result.in = inT
                /\ \A t \in inT :
                      /\ monthly_result.monthly[t] >= 0
                      /\ prev[t].present =>
                            monthly_result.monthly[t] =
                               (IF target[t].seasonal >= prev[t].seasonal
                                THEN target[t].seasonal - prev[t].seasonal ELSE 0)
                      /\ ~prev[t].present => monthly_result.monthly[t] = target[t].seasonal
                /\ monthly_result.total = SumOver(monthly_result.monthly, inT)

\* P1 went 10 -> 50 (40), P2 is new with 50: total 90; computed for the newest of
\* three months against the middle one
C8_Witness ==
    /\ Len(donation_snapshots) = 3
    /\ monthly_result.kind = "delta"
    /\ monthly_result.month = 3
    /\ Preceding(donation_snapshots, 3).members["P1"] = [present |-> TRUE, seasonal |-> 10]
    /\ ~Preceding(donation_snapshots, 3).members["P2"].present
    /\ monthly_result.monthly["P1"] = 40
    /\ monthly_result.monthly["P2"] = 50
    /\ monthly_result.total = 90

\* a decrease (50 -> 10) is clamped to 0
C8_WitnessClamp ==
    /\ monthly_result.kind = "delta"
    /\ monthly_result.month = 2
    /\ HasMonth(donation_snapshots, 1)
    /\ SnapshotAt(donation_snapshots, 1).members["P1"] = [present |-> TRUE, seasonal |-> 50]
    /\ SnapshotAt(donation_snapshots, 2).members["P1"] = [present |-> TRUE, seasonal |-> 10]
    /\ monthly_result.monthly["P1"] = 0

\* ========================================================================
\* Specifications
\* ========================================================================
\* ------------------------------------------------------------------------
\* C2 (as stated): after set(k, v) at time s, get(k, ttl) returns v whenever
\* now - s < ttl and a miss whenever now - s >= ttl, until the next set of k
\* (or its removal by invalidate / clear).
\* ------------------------------------------------------------------------
C2_Claim ==
    (cacheGot.called /\ lastSet[cacheGot.key].valid) =>
        cacheGot.result = IF cacheGot.at - lastSet[cacheGot.key].at < cacheGot.ttl
                          THEN lastSet[cacheGot.key].value
                          ELSE None

\* ------------------------------------------------------------------------
\* C1: concurrent calls of coc_get on a key without a fresh cached value share
\* one run of the fetch factory: while a fetch of the key is running no second
\* one is created, every call waiting for the key holds the one future that
\* _pending names, and so all of them receive that future's outcome.
\* ------------------------------------------------------------------------
RunningFor(k) == {t \in TaskIds : tasks[t].key = k /\ Running(t)}

C1_SharedFetch ==
    /\ \A k \in Keys : Cardinality(RunningFor(k)) <= 1
    /\ \A t \in TaskIds : ~tasks[t].beside
    /\ \A c \in Callers :
          callers[c].pc = "awaiting" =>
              /\ tasks[callers[c].fut].pc # "freed"
              /\ tasks[callers[c].fut].key = callers[c].key
              /\ Running(callers[c].fut) => pending[callers[c].key] = callers[c].fut
    /\ \A c1, c2 \in Callers :
          (/\ callers[c1].pc = "awaiting" /\ callers[c2].pc = "awaiting"
           /\ callers[c1].key = callers[c2].key
           /\ Running(callers[c1].fut) /\ Running(callers[c2].fut))
              => callers[c1].fut = callers[c2].fut

\* two calls shared the only fetch made so far: one has received its document,
\* the other is about to receive the same future's outcome
C1_Witness ==
    \E t \in TaskIds, c \in Callers :
        /\ nextId = 2
        /\ tasks[t].pc = "done" /\ tasks[t].outcome.kind = "value"
        /\ tasks[t].served = 1 /\ ~tasks[t].reused
        /\ callers[c].pc = "awaiting" /\ callers[c].fut = t /\ ~callers[c].must_cancel

\* ------------------------------------------------------------------------
\* C9: failover in coc_get.  Steps of a fetch task t:
\* ------------------------------------------------------------------------
Last(seq) == seq[Len(seq)]

\* t sends its first request
Starts(t) == tasks[t].pc = "select" /\ tasks'[t].pc = "first_http"

\* t sends a failover request
Retries(t) == tasks'[t].pc = "fo_http" /\ Len(tasks'[t].tried) = Len(tasks[t].tried) + 1

\* t returns None (a miss)
Misses(t) == Running(t) /\ tasks'[t].pc = "done" /\ tasks'[t].outcome.kind = "none"

\* a failover request of t succeeds
FailoverSucceeds(t) ==
    tasks[t].pc = "fo_http" /\ tasks'[t].pc = "done" /\ tasks'[t].outcome.kind = "value"

\* every failover request goes to a credential not tried before in this fetch; a
\* miss is returned only after every distinct credential was tried exactly once;
\* the credential whose failover request succeeds becomes the selection
FailoverCore(t) ==
    /\ Retries(t) => Last(tasks'[t].tried) \notin Range(tasks[t].tried)
    /\ Misses(t) => /\ Range(tasks[t].tried) = CredValues
                    /\ Len(tasks[t].tried) = Cardinality(CredValues)
                    /\ tasks[t].tried[1] = tasks[t].cred
    /\ FailoverSucceeds(t) => /\ selected_coc_key' = Last(tasks[t].tried)
                              /\ selected_coc_key_ts' = now
                              /\ selected_coc_key' # tasks[t].cred

\* C9 (as stated): ... and a fetch that starts after a failover made the
\* selection sends its first request with that credential.
C9_Claim ==
    [][\A t \in TaskIds :
          /\ FailoverCore(t)
          /\ (Starts(t) /\ selected_by_failover) => tasks'[t].cred = selected_coc_key]_vars

\* C9 (amended): ... and a fetch that starts while the selection a failover made
\* is younger than COC_IP_CACHE_TTL sends its first request with that credential.
C9_Failover ==
    [][\A t \in TaskIds :
          /\ FailoverCore(t)
          /\ (Starts(t) /\ selected_by_failover /\ SelectionFresh)
                => /\ tasks'[t].cred = selected_coc_key
                   /\ tasks'[t].tried = <<selected_coc_key>>]_vars

\* K2 is configured for an address the probe never reports, so only a failover
\* selects it: a later fetch sends its first request with it
C9_Witness ==
    \E t \in TaskIds :
        /\ selected_by_failover /\ selected_coc_key = "K2"
        /\ tasks[t].pc = "first_http" /\ tasks[t].cred = "K2"

\* ------------------------------------------------------------------------
\* C10 (as stated): once a fetch of k has settled in failure, a call on k is not
\* handed that failure but starts a new fetch, and at every instant at most one
\* fetch per key is pending.
\* ------------------------------------------------------------------------
C10_Claim ==
    /\ \A t \in TaskIds :
          (tasks[t].pc = "done" /\ tasks[t].outcome.kind # "value") => ~tasks[t].reused
    /\ \A k \in Keys : Cardinality(RunningFor(k)) <= 1
    /\ \A k \in Keys : pending[k] # 0 => tasks[pending[k]].key = k

\* ------------------------------------------------------------------------
\* C11 (as stated): a _make_request call on a key whose cache entry is younger
\* than ttl returns from the cache check: it does not go on to get_or_create
\* and no task running _fetch is created.
\* ------------------------------------------------------------------------
C11_Claim ==
    (lastCheck.called /\ lastCheck.fresh) => (~lastCheck.waited /\ ~lastCheck.factory)

\* ------------------------------------------------------------------------
\* C12 (as stated): a fetch that fails hands its callers a miss (None), never
\* an exception: no call receives the outcome of a fetch that ended in an
\* exception of its own (a cancellation is not a failure of the fetch).
\* ------------------------------------------------------------------------
C12_Claim ==
    \A t \in TaskIds :
        (tasks[t].pc = "done" /\ tasks[t].served > 0) => tasks[t].outcome.kind # "error"

\* ------------------------------------------------------------------------
\* C13 (as stated): while a 404 answer cached for a key is younger than ttl, no
\* call on that key makes get_or_create run _fetch again.
\* ------------------------------------------------------------------------
C13_Claim ==
    (lastCheck.called /\ lastCheck.absent) => ~lastCheck.factory

\* ------------------------------------------------------------------------
\* C14: at every instant at most COC_CONCURRENCY requests are inside the
\* semaphore block (in flight), however many calls are under way; the counter
\* of the semaphore is the number of free places and never negative.
\* ------------------------------------------------------------------------
C14_Bounded ==
    /\ SemInFlight <= COC_CONCURRENCY
    /\ sem_value = COC_CONCURRENCY - SemInFlight

\* the limit is reached and a further call is kept waiting
C14_Witness ==
    /\ SemInFlight = COC_CONCURRENCY
    /\ sem_value = 0
    /\ \E r \in Requesters : requests[r] = "waiting"

\* ------------------------------------------------------------------------
\* C15: a select_coc_key call that finds no fresh stored selection returns the
\* credential configured for the address get_egress_ip reported when there is
\* one, else the "*" credential when it is configured, else one of the
\* configured credentials; it returns None exactly when nothing is configured.
\* ------------------------------------------------------------------------
CfgIps == {coc_api_keys[i][1] : i \in 1..Len(coc_api_keys)}

CfgCreds == {coc_api_keys[i][2] : i \in 1..Len(coc_api_keys)}

C15_SelectOrder ==
    (selectGot.called /\ ~selectGot.fresh) =>
        LET ip    == selectGot.ip
            exact == ip # None /\ ip \in CfgIps
        IN  /\ exact => \E i \in 1..Len(coc_api_keys) :
                            coc_api_keys[i] = <<ip, selectGot.result>>
            /\ (~exact /\ "*" \in CfgIps) =>
                  \E i \in 1..Len(coc_api_keys) : coc_api_keys[i] = <<"*", selectGot.result>>
            /\ (~exact /\ "*" \notin CfgIps /\ CfgCreds # {}) => selectGot.result \in CfgCreds
            /\ (selectGot.result = None) <=> (CfgCreds = {})

\* the detected address has no credential of its own although another address
\* has one, listed first: the "*" credential is returned
C15_Witness ==
    /\ selectGot.called /\ ~selectGot.fresh
    /\ selectGot.ip = "ip9"
    /\ Len(coc_api_keys) = 2 /\ coc_api_keys[1][1] = "ip1" /\ coc_api_keys[2][1] = "*"
    /\ selectGot.result = COC_API_KEYS["*"]

\* no "*" entry and the probe failed: the first configured credential
C15_WitnessAny ==
    /\ selectGot.called /\ ~selectGot.fresh
    /\ selectGot.ip = None
    /\ Len(coc_api_keys) = 2 /\ coc_api_keys[1][1] = "ip2" /\ coc_api_keys[2][1] = "ip1"
    /\ selectGot.result = COC_API_KEYS["ip2"]

\* ------------------------------------------------------------------------
\* C16: a select_coc_key call made while the stored selection is younger than
\* COC_IP_CACHE_TTL returns that selection, sends no probe and leaves the
\* selection as it is; a call that has to detect the address while the cached
\* address is younger than COC_IP_CACHE_TTL uses the cached address and sends
\* no probe.
\* ------------------------------------------------------------------------
C16_Reuse ==
    selectGot.called =>
        /\ selectGot.fresh => /\ selectGot.result = selectGot.prev
                              /\ selected_coc_key = selectGot.prev
                              /\ ~selectGot.probed
        /\ (~selectGot.fresh /\ selectGot.ipFresh) => /\ selectGot.ip = selectGot.prevIp
                                                      /\ ~selectGot.probed

\* half the TTL after the selection was stored a call returns it without a probe
C16_Witness ==
    /\ selectGot.called /\ selectGot.fresh
    /\ now - selected_coc_key_ts = COC_IP_CACHE_TTL \div 2
    /\ selectGot.result = selected_coc_key
    /\ ~selectGot.probed

\* nothing is configured, so no selection is ever stored: the address detected
\* by an earlier call is reused without a probe
C16_WitnessIp ==
    /\ selectGot.called /\ ~selectGot.fresh /\ selectGot.ipFresh
    /\ selectGot.ip = "ip1" /\ cached_ip = "ip1"
    /\ ~selectGot.probed

\* ------------------------------------------------------------------------
\* C17 (as stated): when a fetch returns a miss after every credential failed,
\* the stored selection and its timestamp are what they were when the fetch
\* began.
\* ------------------------------------------------------------------------
C17_Claim ==
    selectGot.missed => /\ selected_coc_key = selectGot.prev
                        /\ selected_coc_key_ts = selectGot.prevTs

\* ------------------------------------------------------------------------
\* C18 (as stated): once a baseline has been adopted silently, a later tick
\* that begins with an empty known set (the last members' leaves were just
\* confirmed) and polls a non-empty roster emits a Join for every tag of it.
\* ------------------------------------------------------------------------
C18_Claim ==
    [][(/\ initialized_baseline
        /\ strict_join_cache = {}
        /\ emitted.leaves # {}
        /\ lastPoll'.kind # "skipped"
        /\ lastPoll'.roster # {})
          => emitted'.joins = lastPoll'.roster]_vars

\* ------------------------------------------------------------------------
\* C19: in a tick that diffs, exactly the polled tags that were not known get a
\* Join; each of them is in the known set afterwards, has no miss counter and
\* gets no Leave in that tick.
\* ------------------------------------------------------------------------
C19_JoinsFirst ==
    lastPoll.kind = "diff" =>
        LET joins == lastPoll.roster \ prevKnown
        IN  /\ emitted.joins = joins
            /\ \A t \in joins : /\ t \in strict_join_cache
                                /\ missing_counts[t] = 0
                                /\ t \notin emitted.leaves

\* B joins in the tick in which A is missed for the first time
C19_Witness ==
    /\ LEAVE_DEBOUNCE_COUNT = 2
    /\ lastPoll = [kind |-> "diff", roster |-> {"B"}]
    /\ prevKnown = {"A"}
    /\ emitted = [joins |-> {"B"}, leaves |-> {}]
    /\ strict_join_cache = {"A", "B"}
    /\ missing_counts["A"] = 1 /\ missing_counts["B"] = 0

\* B joins in the tick that confirms the leave of A
C19_WitnessLeave ==
    /\ lastPoll = [kind |-> "diff", roster |-> {"B"}]
    /\ emitted = [joins |-> {"B"}, leaves |-> {"A"}]
    /\ strict_join_cache = {"B"}

\* ------------------------------------------------------------------------
\* C20: a tick that emits a Join or a Leave (or adopts a baseline) calls
\* save_strict_cache, last with the known set as the tick leaves it; when that
\* write succeeds the file holds exactly the in-memory known set at the end of
\* the tick; a tick that saves nothing changes neither the set nor the file.
\* ------------------------------------------------------------------------
C20_Persisted ==
    [][lastPoll'.kind \in {"diff", "bootstrap"} =>
          /\ (emitted'.joins # {} \/ emitted'.leaves # {} \/ lastPoll'.kind = "bootstrap")
                => /\ savedBlob'.called
                   /\ savedBlob'.tags = strict_join_cache'
          /\ (savedBlob'.called /\ savedBlob'.written)
                => /\ members_file'.exists
                   /\ load_strict_cache(members_file') = strict_join_cache'
          /\ ~savedBlob'.called => /\ strict_join_cache' = strict_join_cache
                                   /\ members_file' = members_file]_vars

\* a tick with a Join and a confirmed Leave whose last write succeeded
C20_Witness ==
    /\ lastPoll.kind = "diff"
    /\ emitted.joins # {} /\ emitted.leaves # {}
    /\ savedBlob.called /\ savedBlob.written
    /\ members_file = FileOf(strict_join_cache)
    /\ strict_join_cache # prevKnown

\* ------------------------------------------------------------------------
\* C21: the war tracker is idle unless the polled state is "inWar": a poll
\* without war data or in any other state announces nothing and leaves the
\* war baseline as it was.
\* ------------------------------------------------------------------------
C21_IdleUnlessInWar ==
    warPoll.state # "inWar" => warEmitted = NoHits /\ war_baselines = warPrev

\* a poll of an ended war that shows one more attack than the baseline
C21_Witness ==
    /\ warPoll.state = "warEnded"
    /\ warPrev["P1"] = [present |-> TRUE, attacks |-> <<1>>]
    /\ warPoll.members["P1"] = [present |-> TRUE, attacks |-> <<1, 2>>]
    /\ war_baselines = warPrev
    /\ warEmitted = NoHits

\* ------------------------------------------------------------------------
\* C22: the first in-progress poll of a war with a new identity announces
\* every attack of that war, whatever the baseline left by the previous war
\* holds for the member.
\* ------------------------------------------------------------------------
C22_Claim ==
    [][(baselineWar # 0 /\ baselineWar' # baselineWar) =>
          \A t \in WarTags :
              warEmitted'[t] = IF warPoll'.members[t].present
                               THEN warPoll'.members[t].attacks ELSE <<>>]_vars


\* ------------------------------------------------------------------------
\* C24: for a month that has a snapshot but no chronologically preceding one,
\* calculate_monthly_donations returns the no-baseline result (the note, an
\* empty member map, total 0) and not the failure value.
\* ------------------------------------------------------------------------
C24_NoBaseline ==
    LET m    == monthly_result.month
        list == donation_snapshots
    IN  (m # 0 /\ HasMonth(list, m) /\ ~HasEarlier(list, m)) =>
            /\ monthly_result.kind = "first"
            /\ monthly_result.in = {}
            /\ monthly_result.total = 0

\* months 2 and 3 have snapshots, month 2 is asked for; its snapshot shows P1
\* with 50 donations, the result nevertheless has no member
C24_Witness ==
    /\ Len(donation_snapshots) = 2
    /\ HasMonth(donation_snapshots, 2) /\ HasMonth(donation_snapshots, 3)
    /\ SnapshotAt(donation_snapshots, 2).members["P1"] = [present |-> TRUE, seasonal |-> 50]
    /\ monthly_result.month = 2
    /\ monthly_result.kind = "first"
    /\ monthly_result.in = {}
    /\ monthly_result.total = 0

\* ------------------------------------------------------------------------
\* C28 (as stated): a fetch that is about to start for a key, with no other
\* fetch of that key running and the concurrency limit not reached, can take
\* its first step whatever fetches of other keys are doing: it is not held up
\* by the credential lock.
\* ------------------------------------------------------------------------
C28_Claim ==
    \A t \in TaskIds :
        (/\ tasks[t].pc = "select"
         /\ InFlight < COC_CONCURRENCY
         /\ \A u \in TaskIds \ {t} : Running(u) => tasks[u].key # tasks[t].key)
        => (SelectionFresh \/ coc_key_lock = 0)

\* ------------------------------------------------------------------------
\* C29 (as stated): a get never changes what a later get returns: after a
\* get(k, ttl) every get on any key with any ttl returns what it would have
\* returned before that call.
\* ------------------------------------------------------------------------
C29_Claim ==
    [][CacheGetOp =>
          \A k \in Keys, ttl \in TtlChoices :
              CacheGetValue(api_cache', k, ttl, now') = CacheGetValue(api_cache, k, ttl, now)]_vars

\* ------------------------------------------------------------------------
\* C30 (as stated): cancelling one of the calls that wait on a fetch leaves the
\* fetch alone: a call that was not cancelled itself never waits on a
\* cancelled future.
\* ------------------------------------------------------------------------
C30_Claim ==
    \A c \in Callers :
        (callers[c].pc = "awaiting" /\ ~callers[c].must_cancel) =>
            tasks[callers[c].fut].outcome.kind # "cancelled"


\* ------------------------------------------------------------------------
\* C23: after a poll of the upgrade tracker, a member whose player data was
\* fetched had exactly the descriptors of its current set that were not in the
\* retained set announced, and its retained set is the current one; a member
\* that was not fetched had nothing announced and keeps its retained set. So a
\* descriptor that disappeared and an unchanged set announce nothing.
\* ------------------------------------------------------------------------
C23_UpgradeDiff ==
    \A t \in UpTags :
        IF upPoll[t].fetched
        THEN /\ \A d \in Descriptors :
                    d \in upEmitted[t] <=> (d \in upPoll[t].upgrading /\ d \notin upPrev[t])
             /\ last_upgrade_cache[t] = upPoll[t].upgrading
             /\ (upPoll[t].upgrading \subseteq upPrev[t] => upEmitted[t] = {})
        ELSE upEmitted[t] = {} /\ last_upgrade_cache[t] = upPrev[t]

\* P1 was upgrading a hero and now also a pet: the pet alone is announced;
\* P2's pet upgrade has ended: nothing is announced for P2
C23_Witness ==
    /\ upPrev["P1"] = {"hero"}
    /\ upPoll["P1"] = [fetched |-> TRUE, upgrading |-> {"hero", "pet"}]
    /\ upEmitted["P1"] = {"pet"}
    /\ last_upgrade_cache["P1"] = {"hero", "pet"}
    /\ upPrev["P2"] = {"pet"}
    /\ upPoll["P2"] = [fetched |-> TRUE, upgrading |-> {}]
    /\ upEmitted["P2"] = {}
    /\ last_upgrade_cache["P2"] = {}

\* ------------------------------------------------------------------------
\* C25: the list save_monthly_snapshot leaves holds one snapshot per month key,
\* newest first, at most KEEP_SNAPSHOTS of them, for exactly the newest
\* KEEP_SNAPSHOTS month keys ever saved; the snapshot just saved is the one
\* held for its month when that month is retained, and saving it again
\* leaves the list as it is.
\* ------------------------------------------------------------------------
NewestMonths(months) ==
    {m \in months : Cardinality({x \in months : x > m}) < KEEP_SNAPSHOTS}

C25_Retained ==
    LET list == donation_snapshots
    IN  /\ Len(list) <= KEEP_SNAPSHOTS
        /\ \A i \in 1..Len(list), j \in 1..Len(list) : i < j => list[i].date > list[j].date
        /\ MonthsOf(list) = NewestMonths(savedMonths)
        /\ lastSave.called =>
              /\ \A i \in 1..Len(list) :
                    list[i].date = lastSave.snapshot.date => list[i] = lastSave.snapshot
              /\ save_monthly_snapshot(list, lastSave.snapshot) = list
              /\ lastSave.repeated => list = lastSave.before

\* 24 months were held, month 25 and then month 26 were saved: months 1 and 2
\* are gone, 24 snapshots are held
C25_Witness ==
    /\ lastSave.count = 2
    /\ Cardinality(savedMonths) = KEEP_SNAPSHOTS + 2
    /\ Len(donation_snapshots) = KEEP_SNAPSHOTS
    /\ donation_snapshots[1].date = KEEP_SNAPSHOTS + 2
    /\ donation_snapshots[KEEP_SNAPSHOTS].date = 3

\* the snapshot of a month that was held with 10 donations is saved with 50,
\* twice: it replaced the old one and the second save changed nothing
C25_WitnessReplace ==
    /\ lastSave.repeated
    /\ Len(donation_snapshots) = KEEP_SNAPSHOTS
    /\ lastSave.snapshot.date = 5
    /\ lastSave.snapshot.members["P1"].seasonal = 50
    /\ donation_snapshots[KEEP_SNAPSHOTS - 4] = lastSave.snapshot

\* ------------------------------------------------------------------------
\* C26 (as stated): once the stop of a loop has been requested, the loop sends
\* no event, wherever the stop found it.
\* ------------------------------------------------------------------------
C26_Claim == \A l \in LoopNames : ~loops[l].late

\* ------------------------------------------------------------------------
\* C27 (as stated): no exception raised inside a tick ends a tracker loop.
\* ------------------------------------------------------------------------
C27_Claim == \A l \in LoopNames : loops[l].pc # "dead"

\* ------------------------------------------------------------------------
\* C35: after every tick of track_clan, a tag that has a miss counter (a
\* value other than 0 in missing_counts) is in the known set, and its counter
\* is at least 1 and below LEAVE_DEBOUNCE_COUNT.
\* ------------------------------------------------------------------------
C35_Counters ==
    \A t \in Tags :
        missing_counts[t] # 0 =>
            /\ t \in strict_join_cache
            /\ missing_counts[t] >= 1
            /\ missing_counts[t] < LEAVE_DEBOUNCE_COUNT

\* a known tag was absent from the last roster for the first time, under a
\* threshold of 2: its counter is 1 and no leave was announced
C35_Witness ==
    /\ lastPoll.kind = "diff"
    /\ LEAVE_DEBOUNCE_COUNT = 2
    /\ emitted.leaves = {}
    /\ \E t \in strict_join_cache : t \notin lastPoll.roster /\ missing_counts[t] = 1


\* ------------------------------------------------------------------------
\* C39 (as stated): when calculate_monthly_donations answered a delta for a
\* month M, a save_monthly_snapshot for a later month that leaves M's
\* snapshot in the list leaves the answer for M as it was (members and total).
\* ------------------------------------------------------------------------
C39_Claim ==
    lastSave.called =>
        \A M \in 1..MaxMonthKey :
            LET was == calculate_monthly_donations(lastSave.before, M)
            IN  (/\ was.kind = "delta"
                 /\ lastSave.snapshot.date > M
                 /\ M \in MonthsOf(donation_snapshots))
                => calculate_monthly_donations(donation_snapshots, M) = was

C40_Claim == reminder_log.count <= 1

\* ------------------------------------------------------------------------
\* C38 (as stated): a scan of the global loops goes through exactly the clans
\* that are monitored when it begins: not through a clan removed before, and
\* through every clan added before, also one added after a removal.
\* ------------------------------------------------------------------------
C38_Claim == lastScan.done => lastScan.clans = lastScan.monitored

\* ------------------------------------------------------------------------
\* C31 (as stated): a loop of a tracker ends only after stop() was called on
\* the tracker: no loop reads the running flag before track_joins_leaves has
\* set it and returns without polling.
\* ------------------------------------------------------------------------
C31_Claim ==
    \A i \in 1..Len(trackers), l \in TrackerLoops :
        trackers[i].pc[l] = "exited" => trackers[i].stopped

\* ------------------------------------------------------------------------
\* C32 (as stated): at every instant at most one track_joins_leaves task of
\* the clan is alive.
\* ------------------------------------------------------------------------
C32_Claim ==
    Cardinality({i \in 1..Len(trackers) :
                    trackers[i].pc["track_joins_leaves"] \in LiveAt}) <= 1

\* ------------------------------------------------------------------------
\* C34 (as stated): over the in-war polls of one war and one run, with attack
\* lists that only grow and members that may be missing from a poll, no
\* attack is announced twice.
\* ------------------------------------------------------------------------
C34_Claim == ~warLog.twice

\* ------------------------------------------------------------------------
\* C33 (as stated): started from the same file and fed the same polls, the
\* two membership trackers emit the same events in every tick and end it with
\* the same known set and the same file.
\* ------------------------------------------------------------------------
C33_Claim ==
    lastPoll.kind # "none" =>
        /\ trackerEmitted = emitted
        /\ member_cache = strict_join_cache
        /\ tracker_file = members_file

\* ------------------------------------------------------------------------
\* C36: in either tracker a Join for a tag is emitted only when no Join for
\* it is open (none was emitted, or a Leave for it followed the last one),
\* and a Leave is emitted only for a tag of the known set of that moment.
\* An event counts as emitted when its send is attempted.
\* ------------------------------------------------------------------------
C36_NoDuplicateJoins ==
    [][LET clan   == joinLog.who = "track_clan"
           events == IF clan THEN emitted' ELSE trackerEmitted'
           known  == IF clan THEN strict_join_cache ELSE member_cache
       IN  \A t \in Tags :
               /\ t \in events.joins => ~joinLog.log[t].open
               /\ t \in events.leaves => t \in known]_vars

\* track_clan: the last tick announced the Join of a tag that had joined and
\* left before
C36_Witness ==
    /\ joinLog.who = "track_clan"
    /\ \E t \in Tags : t \in emitted.joins /\ joinLog.log[t].left /\ joinLog.log[t].open

\* ClanTracker: the same
C36_WitnessTracker ==
    /\ joinLog.who = "track_joins_leaves"
    /\ \E t \in Tags :
          t \in trackerEmitted.joins /\ joinLog.log[t].left /\ joinLog.log[t].open

Rest ==
    /\ ClockInit /\ CacheInit /\ GatewayInit /\ ApiInit /\ SemInit /\ SelectIdle
    /\ UpgradeInit /\ LoopInit /\ BotIdle

Others ==
    /\ MemberIdle /\ WarIdle /\ DonationIdle /\ ClockInit /\ CacheInit /\ GatewayInit
    /\ UpgradeInit /\ LoopInit /\ BotIdle

InitApi == Others /\ ApiInit /\ SemInit /\ SelectIdle

SpecApi == InitApi /\ [][ApiNext]_vars

InitSemaphore == Others /\ ApiInit /\ SemInit /\ SelectIdle

SpecSemaphore == InitSemaphore /\ [][SemNext]_vars

InitSelect == Others /\ ApiInit /\ SemInit /\ SelectInit

SpecSelect == InitSelect /\ [][SelectNext]_vars

Quiet == ClockInit /\ CacheInit /\ GatewayInit /\ ApiInit /\ SemInit /\ SelectIdle /\ BotIdle

\* every component but the bot-level ones, at rest
Core ==
    /\ MemberIdle /\ WarIdle /\ DonationIdle /\ ClockInit /\ CacheInit /\ GatewayInit
    /\ ApiInit /\ SemInit /\ SelectIdle /\ UpgradeInit /\ LoopInit

InitReminder == Core /\ ReminderInit /\ ClanListIdle /\ TrackersIdle

InitClanList == Core /\ ReminderIdle /\ ClanListInit /\ TrackersIdle

InitTrackers == Core /\ ReminderIdle /\ ClanListIdle /\ TrackersInit

SpecTrackers == InitTrackers /\ [][TrackersNext]_vars

SpecClanList == InitClanList /\ [][ClanListNext]_vars

SpecReminder == InitReminder /\ [][ReminderWake]_vars

InitUpgrade == MemberIdle /\ WarIdle /\ DonationIdle /\ Quiet /\ UpgradeInit /\ LoopInit

SpecUpgrade == InitUpgrade /\ [][UpgradePoll]_vars

InitSnapshot == MemberIdle /\ WarIdle /\ SnapshotInit /\ Rest

SpecSnapshot == InitSnapshot /\ [][SaveMonthly]_vars

InitLoops == MemberIdle /\ WarIdle /\ DonationIdle /\ Quiet /\ UpgradeInit /\ LoopInit

SpecLoops == InitLoops /\ [][LoopNext]_vars

InitMember == MemberInit /\ WarIdle /\ DonationIdle /\ Rest

SpecMember == InitMember /\ [][MemberNext]_vars

SpecMembership == InitMember /\ [][MembershipTick]_vars

InitJoins == JoinsInit /\ WarIdle /\ DonationIdle /\ Rest

SpecJoins == InitJoins /\ [][JoinsNext]_vars

InitWar == MemberIdle /\ WarInit /\ DonationIdle /\ Rest

SpecWar == InitWar /\ [][WarNext]_vars

SpecWarGrowth == InitWar /\ [][WarPollGrowing]_vars

InitDonation == MemberIdle /\ WarIdle /\ DonationInit /\ Rest

SpecDonation == InitDonation /\ [][CalculateMonthly]_vars

InitCache == MemberIdle /\ WarIdle /\ DonationIdle /\ Rest

SpecCache == InitCache /\ [][CacheNext]_vars

InitGateway == MemberIdle /\ WarIdle /\ DonationIdle /\ Rest

SpecGateway == InitGateway /\ [][GatewayNext]_vars

\* the gateway under the scheduling of the event loop
SpecGatewayLive == InitGateway /\ [][GatewayNext]_vars /\ GatewayFair

====
